---- MODULE Spec2Model ----
(***************************************************************************)
(* The registry SDK's list operation (serversList / $do) and the page      *)
(* chain it returns: request validation, request creation, the transport   *)
(* attempts under the retry policy, the classification of the response,    *)
(* and the continuation (next) of every page.                              *)
(***************************************************************************)
EXTENDS Integers, Sequences, FiniteSets, TLC

VARIABLES
    request,    \* the caller's ListServersRequest, never written after Init
    options,    \* the caller's RequestOptions (or None), never written after Init
    client,     \* the client's options (client._options), never written after Init
    pc,         \* "start" | "sending" | "sleeping" | "idle"
    callReq,    \* the request of the $do call in progress (None when idle)
    attempts,   \* transport attempts started by the current / last call
    last,       \* outcome of client._do so far: that of the latest transport attempt
    yielded,    \* the pages handed to the caller so far, the current one last
    issued,     \* page numbers for which client._do was invoked, in order
    nextCalls,  \* how many times the caller has called next()
    lastNext,   \* what the latest next() returned: "none" | "null" | "page"
    context,    \* retryConfig and retryCodes of the latest call's context (or None)
    timeoutMs,  \* the timeoutMs the latest call passed to _createRequest (or None)
    security,   \* the security the latest call passed to _createRequest (or None)
    aborted,    \* the caller's abort signal has fired
    elapsed,    \* time since the first attempt of the call, where the clock is modelled
    wait,       \* the delay chosen before the retry to come, where the clock is modelled
    concurrent, \* a second call running on the same client (None where there is none)
    expressReq, \* the Express request handed to parseAndValidateConfig
    schema,     \* the schema handed to parseAndValidateConfig (or None)
    resolved,   \* what parseAndValidateConfig returned (None before the call)
    resolvedAgain, \* what a second call with the same request returned (or None)
    handlers,   \* the stateless server: each request that arrived and how far it got
    servers,    \* the stateless server: every server instance created so far
    transports  \* the stateless server: every transport created so far

vars == <<request, options, client, pc, callReq, attempts, last, yielded,
          issued, nextCalls, lastNext, context, timeoutMs, security, aborted, elapsed, wait,
          concurrent, expressReq, schema, resolved, resolvedAgain, handlers, servers, transports>>

\* the variables of the list operation
sdk == <<request, options, client, pc, callReq, attempts, last, yielded,
         issued, nextCalls, lastNext, context, timeoutMs, security, aborted, elapsed, wait,
         concurrent>>

\* the variables of the config resolver
resolver == <<expressReq, schema, resolved, resolvedAgain>>

\* the variables of the stateless server
stateless == <<handlers, servers, transports>>

---------------------------------------------------------------------------
\* Bounds of the model.

\* next() calls the caller makes
MaxNext == 4
\* transport attempts of one call before maxElapsedTime is taken as elapsed
MaxAttempts == 2

---------------------------------------------------------------------------
\* Optional values (undefined | x) and Result<T, E>.

None == <<>>
Some(x) == <<x>>
Get(o) == o[1]

NoError == "none"

OK(v) == [ok |-> TRUE, value |-> Some(v), error |-> NoError]
ERR(e) == [ok |-> FALSE, value |-> None, error |-> e]

ErrorKinds ==
    {"UnauthorizedError", "ServerError", "SmitheryRegistryError",
     "ResponseValidationError", "ConnectionError", "RequestAbortedError",
     "RequestTimeoutError", "InvalidRequestError", "UnexpectedClientError",
     "SDKValidationError"}

---------------------------------------------------------------------------
\* Inputs: requests, options, client configuration.

QValues == {None, Some("search term")}
PageValues == {None, Some(0), Some(1), Some(3)}
PageSizeValues == {None, Some(0), Some(1), Some(20), Some(100), Some(101)}
Requests == [q : QValues, page : PageValues, pageSize : PageSizeValues]

defaultRetryConfig ==
    [strategy |-> "backoff",
     backoff |-> Some([initialInterval |-> 500, maxInterval |-> 60000,
                       exponentTimes10 |-> 15, maxElapsedTime |-> 3600000]),
     retryConnectionErrors |-> TRUE]

noRetries == [strategy |-> "none", backoff |-> None, retryConnectionErrors |-> FALSE]

callerBackoff ==
    [strategy |-> "backoff",
     backoff |-> Some([initialInterval |-> 100, maxInterval |-> 1000,
                       exponentTimes10 |-> 20, maxElapsedTime |-> 5000]),
     retryConnectionErrors |-> FALSE]

RetryConfigValues == {None, Some(noRetries), Some(callerBackoff)}
RetryCodesValues == {None, Some({"401"}), Some({"4XX", "5XX"})}

Options(r, c, t) == [retries |-> r, retryCodes |-> c, timeoutMs |-> t]

OptionsValues ==
    {None} \cup {Some(Options(r, c, None)) :
                    r \in RetryConfigValues, c \in RetryCodesValues}

ClientValues == [retryConfig : {None, Some(noRetries)}, timeoutMs : {None}, bearerAuth : {None}]

TimeoutValues == {None, Some(-1), Some(0), Some(250), Some(5000)}
ClientTimeoutValues == {None, Some(0), Some(3000)}

---------------------------------------------------------------------------
\* The transport: one attempt ends in a response or in a connection-level failure.

Malformed == [json |-> FALSE, resultArray |-> None]
Json(ra) == [json |-> TRUE, resultArray |-> ra]

Response(s, b) == [kind |-> "response", status |-> s, body |-> b, error |-> NoError]
Failure(e) == [kind |-> "failure", status |-> 0, body |-> Malformed, error |-> e]
NoOutcome == [kind |-> "none", status |-> 0, body |-> Malformed, error |-> NoError]

ItemCounts == {0, 7, 20}

Responses ==
    {Response(200, b) : b \in {Malformed, Json(None)} \cup {Json(Some(n)) : n \in ItemCounts}}
    \cup {Response(s, b) : s \in {401, 500}, b \in {Malformed, Json(None)}}
    \cup {Response(s, Json(None)) : s \in {204, 302, 404, 503}}

TransportOutcomes ==
    Responses \cup {Failure("ConnectionError"), Failure("RequestTimeoutError")}

---------------------------------------------------------------------------
\* Input validation (safeParse with ListServersRequest$outboundSchema).

\* validation without the upper bound of pageSize
ValidRequestNoUpperBound(r) ==
    /\ (r.page = None \/ Get(r.page) >= 1)
    /\ (r.pageSize = None \/ Get(r.pageSize) >= 1)

ValidRequest(r) ==
    /\ (r.page = None \/ Get(r.page) >= 1)
    /\ (r.pageSize = None \/ (Get(r.pageSize) >= 1 /\ Get(r.pageSize) <= 100))

safeParse(r) ==
    IF ValidRequest(r) THEN OK(r) ELSE ERR("SDKValidationError")

---------------------------------------------------------------------------
\* The retry configuration of a call and the retry policy.

\* a resolution that skips the client's retryConfig
retryConfigOfIgnoringClient(opts, cl) ==
    IF opts # None /\ Get(opts).retries # None THEN Get(Get(opts).retries)
    ELSE defaultRetryConfig

\* a resolution that prefers the client's retryConfig to the per-call one
retryConfigOfClientFirst(opts, cl) ==
    IF cl.retryConfig # None THEN Get(cl.retryConfig)
    ELSE IF opts # None /\ Get(opts).retries # None THEN Get(Get(opts).retries)
    ELSE defaultRetryConfig

retryConfigOf(opts, cl) ==
    IF opts # None /\ Get(opts).retries # None THEN Get(Get(opts).retries)
    ELSE IF cl.retryConfig # None THEN Get(cl.retryConfig)
    ELSE defaultRetryConfig

\* retry codes whose default also covers 4XX
retryCodesOfAlso4XX(opts) ==
    IF opts # None /\ Get(opts).retryCodes # None THEN Get(Get(opts).retryCodes)
    ELSE {"4XX", "5XX"}

retryCodesOf(opts) ==
    IF opts # None /\ Get(opts).retryCodes # None THEN Get(Get(opts).retryCodes)
    ELSE {"5XX"}

\* credential sources (client._options.bearerAuth): none, a token, or a
\* supplier with what it returns
StaticToken(t) == Some([kind |-> "value", value |-> Some(t)])
Supplier(result) == Some([kind |-> "function", value |-> result])
BearerAuthValues == {None, StaticToken("secret"), Supplier(None), Supplier(Some("fresh"))}

\* the credential a source resolves to for this call, None when it has none
extractSecurity(sec) == IF sec = None THEN None ELSE Get(sec).value

\* an input that names a credential also when there is none
securityInputAlways(secConfig) ==
    [k \in {"bearerAuth"} |-> IF secConfig = None THEN "undefined" ELSE Get(secConfig)]

\* secConfig == null ? {} : { bearerAuth: secConfig }
securityInput(secConfig) ==
    IF secConfig = None THEN [k \in {} |-> ""] ELSE [k \in {"bearerAuth"} |-> Get(secConfig)]

\* the security of the request: a bearer header for a credential, none without
resolveGlobalSecurity(input) ==
    IF "bearerAuth" \in DOMAIN input
    THEN Some([Authorization |-> "Bearer " \o input.bearerAuth])
    ELSE None

contextOf(opts, cl) ==
    [retryConfig |-> retryConfigOf(opts, cl), retryCodes |-> retryCodesOf(opts),
     resolvedSecurity |-> resolveGlobalSecurity(securityInput(extractSecurity(cl.bearerAuth))),
     securitySource |-> cl.bearerAuth]

\* a || b || -1 on optional numbers: undefined and 0 are falsy
Truthy(t) == t # None /\ Get(t) # 0

timeoutOf(opts, cl) ==
    IF opts # None /\ Truthy(Get(opts).timeoutMs) THEN Get(Get(opts).timeoutMs)
    ELSE IF Truthy(cl.timeoutMs) THEN Get(cl.timeoutMs)
    ELSE -1

WildcardClass == [c \in {"1XX", "2XX", "3XX", "4XX", "5XX"} |->
                    CASE c = "1XX" -> 1 [] c = "2XX" -> 2 [] c = "3XX" -> 3
                      [] c = "4XX" -> 4 [] c = "5XX" -> 5]
ExactCode == [c \in {"200", "401", "500"} |->
                    CASE c = "200" -> 200 [] c = "401" -> 401 [] c = "500" -> 500]

matchStatusCode(status, code) ==
    IF code \in DOMAIN WildcardClass
    THEN status \div 100 = WildcardClass[code]
    ELSE status = ExactCode[code]

\* the retry policy without its exception for 401
isRetryableAlso401(cfg, codes, out) ==
    /\ cfg.strategy = "backoff"
    /\ \/ out.kind = "failure" /\ cfg.retryConnectionErrors
       \/ /\ out.kind = "response"
          /\ \E c \in codes : matchStatusCode(out.status, c)

isRetryable(cfg, codes, out) ==
    /\ cfg.strategy = "backoff"
    /\ \/ out.kind = "failure" /\ cfg.retryConnectionErrors
       \/ /\ out.kind = "response"
          /\ out.status # 401
          /\ \E c \in codes : matchStatusCode(out.status, c)

---------------------------------------------------------------------------
\* The response matcher of the list operation.

\* the matcher list with the wildcard patterns ahead of the exact codes
matchersWildcardsFirst ==
    << [codes |-> "200", kind |-> "json",    variant |-> "Success"],
       [codes |-> "4XX", kind |-> "fail",    variant |-> "SmitheryRegistryError"],
       [codes |-> "5XX", kind |-> "fail",    variant |-> "SmitheryRegistryError"],
       [codes |-> "401", kind |-> "jsonErr", variant |-> "UnauthorizedError"],
       [codes |-> "500", kind |-> "jsonErr", variant |-> "ServerError"] >>

\* the matcher list with catch-all entries for the 2XX and 3XX classes
matchersCatchAll ==
    << [codes |-> "200", kind |-> "json",    variant |-> "Success"],
       [codes |-> "401", kind |-> "jsonErr", variant |-> "UnauthorizedError"],
       [codes |-> "500", kind |-> "jsonErr", variant |-> "ServerError"],
       [codes |-> "4XX", kind |-> "fail",    variant |-> "SmitheryRegistryError"],
       [codes |-> "5XX", kind |-> "fail",    variant |-> "SmitheryRegistryError"],
       [codes |-> "2XX", kind |-> "fail",    variant |-> "SmitheryRegistryError"],
       [codes |-> "3XX", kind |-> "fail",    variant |-> "SmitheryRegistryError"] >>

matchers ==
    << [codes |-> "200", kind |-> "json",    variant |-> "Success"],
       [codes |-> "401", kind |-> "jsonErr", variant |-> "UnauthorizedError"],
       [codes |-> "500", kind |-> "jsonErr", variant |-> "ServerError"],
       [codes |-> "4XX", kind |-> "fail",    variant |-> "SmitheryRegistryError"],
       [codes |-> "5XX", kind |-> "fail",    variant |-> "SmitheryRegistryError"] >>

\* index of the first matcher whose pattern matches the status, 0 when none does
firstMatch(status) ==
    LET hits == {i \in 1..Len(matchers) : matchStatusCode(status, matchers[i].codes)}
    IN  IF hits = {} THEN 0 ELSE CHOOSE i \in hits : \A j \in hits : i <= j

\* a matcher that tries the later patterns when the body of the matched one
\* does not decode
matchFallsThrough(response) ==
    LET i == firstMatch(response.status)
        later == {j \in 1..Len(matchers) :
                    /\ j > i
                    /\ matchStatusCode(response.status, matchers[j].codes)
                    /\ matchers[j].kind = "fail"}
    IN  IF i = 0 THEN ERR("UnexpectedClientError")
        ELSE IF matchers[i].kind = "fail" THEN ERR(matchers[i].variant)
        ELSE IF ~response.body.json
        THEN IF later = {} THEN OK(response.body)
             ELSE ERR(matchers[CHOOSE j \in later : \A k \in later : j <= k].variant)
        ELSE IF matchers[i].kind = "jsonErr" THEN ERR(matchers[i].variant)
        ELSE OK(response.body)

match(response) ==
    LET i == firstMatch(response.status)
    IN  IF i = 0 THEN ERR("UnexpectedClientError")
        ELSE IF matchers[i].kind = "fail" THEN ERR(matchers[i].variant)
        ELSE IF ~response.body.json THEN ERR("ResponseValidationError")
        ELSE IF matchers[i].kind = "jsonErr" THEN ERR(matchers[i].variant)
        ELSE OK(response.body)

---------------------------------------------------------------------------
\* Pages: the Result of a call, its continuation and its call record.

haltIterator(result) ==
    [ok |-> result.ok, value |-> result.value, error |-> result.error,
     next |-> None, tildeNext |-> None]

PageOf(r) == IF r.page = None THEN 1 ELSE Get(r.page)

\* nextFunc that stops on a page shorter than pageSize (default 20)
nextFuncShortPageStops(r, responseData) ==
    LET nextPage == PageOf(r) + 1
        size == IF r.pageSize = None THEN 20 ELSE Get(r.pageSize)
    IN  IF ~responseData.json \/ responseData.resultArray = None
        THEN [next |-> None, tildeNext |-> None]
        ELSE IF Get(responseData.resultArray) < size
        THEN [next |-> None, tildeNext |-> None]
        ELSE [next |-> Some([r EXCEPT !.page = Some(nextPage)]),
              tildeNext |-> Some(nextPage)]

\* nextFunc with the test of results.length inverted
nextFuncInverted(r, responseData) ==
    LET nextPage == PageOf(r) + 1
    IN  IF ~responseData.json \/ responseData.resultArray = None
        THEN [next |-> None, tildeNext |-> None]
        ELSE IF Get(responseData.resultArray) # 0
        THEN [next |-> None, tildeNext |-> None]
        ELSE [next |-> Some([r EXCEPT !.page = Some(nextPage)]),
              tildeNext |-> Some(nextPage)]

\* nextFunc without the test of results.length
nextFuncNoEmptyCheck(r, responseData) ==
    LET nextPage == PageOf(r) + 1
    IN  IF ~responseData.json \/ responseData.resultArray = None
        THEN [next |-> None, tildeNext |-> None]
        ELSE [next |-> Some([r EXCEPT !.page = Some(nextPage)]),
              tildeNext |-> Some(nextPage)]

\* nextFunc that continues with the page it was given
nextFuncSamePage(r, responseData) ==
    LET nextPage == PageOf(r)
    IN  IF ~responseData.json \/ responseData.resultArray = None
           \/ Get(responseData.resultArray) = 0
        THEN [next |-> None, tildeNext |-> None]
        ELSE [next |-> Some([r EXCEPT !.page = Some(nextPage)]),
              tildeNext |-> Some(nextPage)]

nextFunc(r, responseData) ==
    LET page == PageOf(r)
        nextPage == page + 1
    IN  IF ~responseData.json THEN [next |-> None, tildeNext |-> None]
        ELSE IF responseData.resultArray = None \/ Get(responseData.resultArray) = 0
        THEN [next |-> None, tildeNext |-> None]
        ELSE [next |-> Some([r EXCEPT !.page = Some(nextPage)]),
              tildeNext |-> Some(nextPage)]

APICall(status, req, response) ==
    [status |-> status, request |-> req, response |-> response]

WithCall(page, call) ==
    [ok |-> page.ok, value |-> page.value, error |-> page.error,
     next |-> page.next, tildeNext |-> page.tildeNext, call |-> call]

invalidPage(parsed) ==
    WithCall(haltIterator(parsed), APICall("invalid", None, None))

\* a failed request creation reported as a failed transport call
requestErrorPageAsRequestError(requestRes) ==
    WithCall(haltIterator(requestRes), APICall("request-error", None, None))

requestErrorPage(requestRes) ==
    WithCall(haltIterator(requestRes), APICall("invalid", None, None))

\* the branch after client._do without the test of doResult.ok: the failure is
\* passed on as if it were a response
transportErrorPageAsSuccess(doResult, req) ==
    [ok |-> TRUE, value |-> doResult.value, error |-> NoError,
     next |-> None, tildeNext |-> None,
     call |-> [status |-> "complete", request |-> Some(req), response |-> None]]

transportErrorPage(doResult, req) ==
    WithCall(haltIterator(doResult), APICall("request-error", Some(req), None))

\* the error branch after M.match without haltIterator: the page keeps a continuation
matchErrorPageNoHalt(result, req, response) ==
    [ok |-> result.ok, value |-> result.value, error |-> result.error,
     next |-> Some([req EXCEPT !.page = Some(PageOf(req) + 1)]),
     tildeNext |-> Some(PageOf(req) + 1),
     call |-> [status |-> "complete", request |-> Some(req), response |-> Some(response)]]

matchErrorPage(result, req, response) ==
    WithCall(haltIterator(result), APICall("complete", Some(req), Some(response)))

successPage(result, raw, r, req, response) ==
    LET n == nextFunc(r, raw)
    IN  WithCall([ok |-> result.ok, value |-> result.value, error |-> result.error,
                  next |-> n.next, tildeNext |-> n.tildeNext],
                 APICall("complete", Some(req), Some(response)))

\* $do without the return on a failed input validation
earlyReturnNoValidation(r, requestRes) ==
    IF ~requestRes.ok THEN Some(requestErrorPage(requestRes)) ELSE None

\* $do before client._do: the page it returns at once when input validation or
\* client._createRequest (whose Result is requestRes) fails, None otherwise
earlyReturn(r, requestRes) ==
    LET parsed == safeParse(r)
    IN  IF ~parsed.ok THEN Some(invalidPage(parsed))
        ELSE IF ~requestRes.ok THEN Some(requestErrorPage(requestRes))
        ELSE None

\* the page $do returns once client._do has ended with outcome out
finish(r, out) ==
    LET req == r
        doResult == IF out.kind = "failure" THEN ERR(out.error) ELSE OK(out)
    IN  IF ~doResult.ok THEN transportErrorPage(doResult, req)
        ELSE LET response == Get(doResult.value)
                 result == match(response)
             IN  IF ~result.ok THEN matchErrorPage(result, req, response)
                 ELSE successPage(result, response.body, r, req, response)

\* a call that also requests the following page at once
issueRequestPrefetch(log, r) == Append(Append(log, PageOf(r)), PageOf(r) + 1)

issueRequest(log, r) == Append(log, PageOf(r))

---------------------------------------------------------------------------
\* The clock of the retry loop.  Delays are counted in ticks, TicksPerMs to the
\* millisecond, so that the fractional delays of exponent 1.5 are exact; the
\* elapsed time is a number of milliseconds and a number of ticks below one
\* millisecond.

TicksPerMs == 2^12

\* how long a transport attempt takes, in milliseconds
AttemptDurations == {0, 2000}

Min(a, b) == IF a <= b THEN a ELSE b

StartOfCall == [ms |-> 0, ticks |-> 0]

Later(e, ticks) ==
    LET t == e.ticks + ticks
    IN  [ms |-> e.ms + t \div TicksPerMs, ticks |-> t % TicksPerMs]

\* e is more than ms milliseconds
Exceeds(e, ms) == e.ms > ms \/ (e.ms = ms /\ e.ticks > 0)

\* d * exponent, for the exponent given in tenths
TimesExponent(d, exponentTimes10) ==
    (d \div 10) * exponentTimes10 + ((d % 10) * exponentTimes10) \div 10

\* a delay that grows without the cap of maxInterval
growUncapped(bk, prev) == TimesExponent(prev, bk.exponentTimes10)

\* the delay that follows the delay prev
grow(bk, prev) ==
    Min(bk.maxInterval * TicksPerMs, TimesExponent(prev, bk.exponentTimes10))

\* the delay reached from the delay d after k more retries
RECURSIVE growBy(_, _, _)
growBy(bk, d, k) ==
    IF k = 0 THEN d
    ELSE IF k = 1 THEN grow(bk, d)
    ELSE CHOOSE r \in {growBy(bk, half, k - k \div 2) :
                          half \in {growBy(bk, d, k \div 2)}} : TRUE

\* the delay before retry n (the first retry is retry 0), in ticks:
\* min(maxInterval, initialInterval * exponent^n)
backoffDelay(bk, n) ==
    growBy(bk, Min(bk.maxInterval * TicksPerMs, bk.initialInterval * TicksPerMs), n)

\* a budget test that takes maxInterval for the budget
expiredAtMaxInterval(cfg, e) ==
    cfg.backoff # None /\ Exceeds(e, Get(cfg.backoff).maxInterval)

\* the time since the first attempt exceeds the configuration's maxElapsedTime
expiredAt(cfg, e) ==
    cfg.backoff # None /\ Exceeds(e, Get(cfg.backoff).maxElapsedTime)

\* what client._do returns once the abort signal has fired
onAbort == Failure("RequestAbortedError")

---------------------------------------------------------------------------
\* The state machine.

cur == yielded[Len(yielded)]

InitSdk(requests, optionsValues, clientValues) ==
    /\ request \in requests
    /\ options \in optionsValues
    /\ client \in clientValues
    /\ pc = "start"
    /\ callReq = None
    /\ attempts = 0
    /\ last = NoOutcome
    /\ yielded = <<>>
    /\ issued = <<>>
    /\ nextCalls = 0
    /\ lastNext = "none"
    /\ context = None
    /\ timeoutMs = None
    /\ security = None
    /\ aborted = FALSE
    /\ elapsed = StartOfCall
    /\ wait = 0

\* no request has reached the stateless server
NoServer ==
    /\ handlers = <<>>
    /\ servers = <<>>
    /\ transports = <<>>

\* no request has reached the config resolver or the stateless server
InitWith(requests, optionsValues, clientValues) ==
    /\ InitSdk(requests, optionsValues, clientValues)
    /\ concurrent = None
    /\ expressReq = [query |-> <<>>, originalUrl |-> "/mcp"]
    /\ schema = None
    /\ resolved = None
    /\ resolvedAgain = None
    /\ NoServer

Deliver(page) ==
    /\ yielded' = Append(yielded, page)
    /\ pc' = "idle"
    /\ callReq' = None

\* $do from its entry to the first transport attempt of client._do
Begin(r) ==
    /\ \E requestRes \in {OK(r), ERR("InvalidRequestError")} :
        LET early == earlyReturn(r, requestRes)
        IN  IF early # None
            THEN /\ Deliver(Get(early))
                 /\ attempts' = 0
                 /\ last' = NoOutcome
                 /\ UNCHANGED issued
            ELSE /\ pc' = "sending"
                 /\ callReq' = Some(r)
                 /\ attempts' = 1
                 /\ last' = NoOutcome
                 /\ issued' = issueRequest(issued, r)
                 /\ UNCHANGED yielded
    /\ IF safeParse(r).ok
       THEN /\ context' = Some(contextOf(options, client))
            /\ timeoutMs' = Some(timeoutOf(options, client))
            /\ security' = Some(contextOf(options, client).resolvedSecurity)
       ELSE UNCHANGED <<context, timeoutMs, security>>
    /\ elapsed' = StartOfCall
    /\ wait' = 0

\* the caller calls serversList(client, request, options)
Call ==
    /\ pc = "start"
    /\ Begin(request)
    /\ UNCHANGED <<request, options, client, nextCalls, lastNext, aborted>>
    /\ UNCHANGED <<concurrent, resolver, stateless>>

\* the retry policy decides on the outcome of an attempt; when it stops, $do
\* classifies the outcome and returns the page.  expired: the time since the
\* first attempt exceeds maxElapsedTime
Decide(out, expired) ==
    /\ last' = out
    /\ IF isRetryable(Get(context).retryConfig, Get(context).retryCodes, out)
          /\ ~expired
       THEN /\ pc' = "sleeping"
            /\ UNCHANGED <<callReq, yielded>>
       ELSE Deliver(finish(Get(callReq), out))

\* the transport attempt in flight ends, after a time the model leaves open
Respond ==
    /\ pc = "sending"
    /\ \E out \in TransportOutcomes :
       \E expired \in (IF attempts < MaxAttempts THEN BOOLEAN ELSE {TRUE}) :
          Decide(out, expired)
    /\ UNCHANGED <<request, options, client, attempts, issued, nextCalls, lastNext,
                   context, timeoutMs, security, aborted, elapsed, wait>>
    /\ UNCHANGED <<concurrent, resolver, stateless>>

\* the retry delay ends and the next attempt starts
Wake ==
    /\ pc = "sleeping"
    /\ pc' = "sending"
    /\ attempts' = attempts + 1
    /\ UNCHANGED <<request, options, client, callReq, last, yielded, issued,
                   nextCalls, lastNext, context, timeoutMs, security, aborted, elapsed, wait>>
    /\ UNCHANGED <<concurrent, resolver, stateless>>

\* an abort signal that the call does not observe before its attempt or its
\* delay ends
AbortUnobserved ==
    /\ pc \in {"sending", "sleeping"}
    /\ aborted' = TRUE
    /\ UNCHANGED <<request, options, client, pc, callReq, attempts, last, yielded,
                   issued, nextCalls, lastNext, context, timeoutMs, security, elapsed, wait>>
    /\ UNCHANGED <<concurrent, resolver, stateless>>

\* the caller's abort signal fires while the call has a request in flight or
\* sleeps between two attempts
Abort ==
    /\ pc \in {"sending", "sleeping"}
    /\ aborted' = TRUE
    /\ last' = onAbort
    /\ Deliver(finish(Get(callReq), onAbort))
    /\ UNCHANGED <<request, options, client, attempts, issued, nextCalls, lastNext,
                   context, timeoutMs, security, elapsed, wait>>
    /\ UNCHANGED <<concurrent, resolver, stateless>>

\* the caller calls next() on the current page
Advance ==
    /\ pc = "idle"
    /\ nextCalls < MaxNext
    /\ nextCalls' = nextCalls + 1
    /\ IF cur.next = None
       THEN /\ lastNext' = "null"
            /\ UNCHANGED <<pc, callReq, attempts, last, yielded, issued,
                           context, timeoutMs, security, elapsed, wait>>
       ELSE /\ lastNext' = "page"
            /\ Begin(Get(cur.next))
    /\ UNCHANGED <<request, options, client, aborted>>
    /\ UNCHANGED <<concurrent, resolver, stateless>>

Next == Call \/ Respond \/ Wake \/ Abort \/ Advance

\* every request, under the default retry configuration or with retries off
Init ==
    InitWith(Requests,
             {None, Some(Options(Some(noRetries), None, None))},
             {[retryConfig |-> None, timeoutMs |-> None, bearerAuth |-> None]})

Spec == Init /\ [][Next]_vars

\* every retry configuration, for a default request and an explicit one
InitRetry ==
    InitWith({[q |-> None, page |-> None, pageSize |-> None],
              [q |-> Some("search term"), page |-> Some(3), pageSize |-> Some(20)]},
             OptionsValues, ClientValues)

SpecRetry == InitRetry /\ [][Next]_vars

\* every per-call and client timeout, for a default request and an invalid one
InitTimeout ==
    InitWith({[q |-> None, page |-> None, pageSize |-> None],
              [q |-> None, page |-> Some(0), pageSize |-> None]},
             {None} \cup {Some(Options(None, None, t)) : t \in TimeoutValues},
             [retryConfig : {None}, timeoutMs : ClientTimeoutValues, bearerAuth : {None}])

SpecTimeout == InitTimeout /\ [][Next]_vars

\* every credential source, for a default request under the default retry
\* configuration or with retries off
InitSecurity ==
    InitWith({[q |-> None, page |-> None, pageSize |-> None]},
             {None, Some(Options(Some(noRetries), None, None))},
             [retryConfig : {None}, timeoutMs : {None}, bearerAuth : BearerAuthValues])

SpecSecurity == InitSecurity /\ [][Next]_vars

---------------------------------------------------------------------------
\* Two calls on one client.  The second call is another invocation of $do with
\* its own request, options and locals; it reads the client as the first does.

SecondCall(r, opts) ==
    [request |-> r, options |-> opts, pc |-> "start", attempts |-> 0,
     last |-> NoOutcome, context |-> None, page |-> None]

\* a second call that stores the retry configuration it runs under in the client
ConcurrentCallKeepingRetries ==
    /\ concurrent # None
    /\ Get(concurrent).pc = "start"
    /\ LET c == Get(concurrent)
       IN  /\ concurrent' = Some([c EXCEPT !.pc = "sending", !.attempts = 1,
                                   !.context = Some(contextOf(c.options, client))])
           /\ client' = [client EXCEPT !.retryConfig =
                             Some(contextOf(c.options, client).retryConfig)]
    /\ UNCHANGED <<request, options, pc, callReq, attempts, last, yielded, issued,
                   nextCalls, lastNext, context, timeoutMs, security, aborted,
                   elapsed, wait>>
    /\ UNCHANGED <<resolver, stateless>>

\* the second call from its entry to its first transport attempt
ConcurrentCall ==
    /\ concurrent # None
    /\ Get(concurrent).pc = "start"
    /\ \E requestRes \in {OK(Get(concurrent).request), ERR("InvalidRequestError")} :
        LET c == Get(concurrent)
            early == earlyReturn(c.request, requestRes)
            ctx == IF safeParse(c.request).ok
                   THEN Some(contextOf(c.options, client)) ELSE None
        IN  concurrent' = Some(
              IF early # None
              THEN [c EXCEPT !.pc = "idle", !.page = early, !.context = ctx]
              ELSE [c EXCEPT !.pc = "sending", !.attempts = 1, !.context = ctx])
    /\ UNCHANGED <<request, options, client, pc, callReq, attempts, last, yielded,
                   issued, nextCalls, lastNext, context, timeoutMs, security,
                   aborted, elapsed, wait>>
    /\ UNCHANGED <<resolver, stateless>>

\* a transport attempt of the second call ends
ConcurrentRespond ==
    /\ concurrent # None
    /\ Get(concurrent).pc = "sending"
    /\ \E out \in TransportOutcomes :
       \E expired \in (IF Get(concurrent).attempts < MaxAttempts
                       THEN BOOLEAN ELSE {TRUE}) :
        LET c == Get(concurrent)
        IN  concurrent' = Some(
              IF isRetryable(Get(c.context).retryConfig, Get(c.context).retryCodes, out)
                 /\ ~expired
              THEN [c EXCEPT !.pc = "sleeping", !.last = out]
              ELSE [c EXCEPT !.pc = "idle", !.last = out,
                             !.page = Some(finish(c.request, out))])
    /\ UNCHANGED <<request, options, client, pc, callReq, attempts, last, yielded,
                   issued, nextCalls, lastNext, context, timeoutMs, security,
                   aborted, elapsed, wait>>
    /\ UNCHANGED <<resolver, stateless>>

\* the retry delay of the second call ends
ConcurrentWake ==
    /\ concurrent # None
    /\ Get(concurrent).pc = "sleeping"
    /\ concurrent' = Some([Get(concurrent) EXCEPT !.pc = "sending",
                                                   !.attempts = @ + 1])
    /\ UNCHANGED <<request, options, client, pc, callReq, attempts, last, yielded,
                   issued, nextCalls, lastNext, context, timeoutMs, security,
                   aborted, elapsed, wait>>
    /\ UNCHANGED <<resolver, stateless>>

NextConcurrent ==
    Call \/ Respond \/ Wake \/ Abort \/ Advance
         \/ ConcurrentCall \/ ConcurrentRespond \/ ConcurrentWake

\* a paged call with retry codes of its own, and a second call with another
\* request and a retry configuration of its own
InitConcurrent ==
    /\ InitSdk({[q |-> Some("search term"), page |-> Some(3), pageSize |-> Some(20)]},
               {Some(Options(None, Some({"401"}), None))},
               {[retryConfig |-> None, timeoutMs |-> None, bearerAuth |-> None]})
    /\ concurrent = Some(SecondCall([q |-> None, page |-> Some(1), pageSize |-> Some(1)],
                                    Some(Options(Some(callerBackoff), Some({"5XX"}), None))))
    /\ expressReq = [query |-> <<>>, originalUrl |-> "/mcp"]
    /\ schema = None
    /\ resolved = None
    /\ resolvedAgain = None
    /\ NoServer

SpecConcurrent == InitConcurrent /\ [][NextConcurrent]_vars

---------------------------------------------------------------------------
\* The retry loop of one call with its clock.

\* the delay before the retry that would follow the attempt in flight
nextDelay ==
    LET cfg == Get(context).retryConfig
    IN  IF cfg.backoff = None THEN 0 ELSE backoffDelay(Get(cfg.backoff), attempts - 1)

\* the attempt in flight ends after one of AttemptDurations, in one of outcomes
TimedRespondIn(outcomes) ==
    /\ pc = "sending"
    /\ \E delay \in {nextDelay} :
       \E out \in outcomes : \E d \in AttemptDurations :
          /\ elapsed' = Later(elapsed, d * TicksPerMs)
          /\ Decide(out, expiredAt(Get(context).retryConfig, elapsed'))
          /\ wait' = IF pc' = "sleeping" THEN delay ELSE wait
    /\ UNCHANGED <<request, options, client, attempts, issued, nextCalls, lastNext,
                   context, timeoutMs, security, aborted>>
    /\ UNCHANGED <<concurrent, resolver, stateless>>

\* the call sleeps for the chosen delay, then starts the next attempt
TimedWake ==
    /\ pc = "sleeping"
    /\ pc' = "sending"
    /\ attempts' = attempts + 1
    /\ elapsed' = Later(elapsed, wait)
    /\ UNCHANGED <<request, options, client, callReq, last, yielded, issued,
                   nextCalls, lastNext, context, timeoutMs, security, aborted, wait>>
    /\ UNCHANGED <<concurrent, resolver, stateless>>

TimedRespond == TimedRespondIn(TransportOutcomes)

NextBackoff == Call \/ TimedRespond \/ TimedWake

\* one call of a default request under the default retry configuration, under
\* a caller's backoff with each set of retry codes, and with retries off
InitBackoff ==
    InitWith({[q |-> None, page |-> None, pageSize |-> None]},
             {None, Some(Options(Some(noRetries), None, None))}
               \cup {Some(Options(Some(callerBackoff), c, None)) : c \in RetryCodesValues},
             {[retryConfig |-> None, timeoutMs |-> None, bearerAuth |-> None]})

SpecBackoff == InitBackoff /\ [][NextBackoff]_vars

\* a resource that fails on every attempt
FailingOutcomes ==
    {Response(503, Json(None)), Response(500, Json(None)), Failure("ConnectionError")}

FailingRespond == TimedRespondIn(FailingOutcomes)

NextFailing == Call \/ FailingRespond \/ TimedWake

\* one call to the failing resource under the default retry configuration and
\* under a caller's backoff
InitFailing ==
    InitWith({[q |-> None, page |-> None, pageSize |-> None]},
             {None, Some(Options(Some(callerBackoff), Some({"4XX", "5XX"}), None))},
             {[retryConfig |-> None, timeoutMs |-> None, bearerAuth |-> None]})

\* the call keeps running: the transport answers every attempt and the timer
\* of every delay fires
SpecFailing == InitFailing /\ [][NextFailing]_vars /\ WF_vars(NextFailing)

---------------------------------------------------------------------------
\* The config resolver (parseAndValidateConfig).
\*
\* JSON values are records named after their type; a query key is the
\* sequence of its dot-separated segments (key.split(".")), so the key a.b is
\* <<"a", "b">> and the key config is <<"config">>.

JNull == [null |-> TRUE]
JNum(n) == [num |-> n]
JStr(x) == [str |-> x]
JBool(b) == [bool |-> b]
JObj(f) == [obj |-> f]
Undefined == [undefined |-> TRUE]

IsObj(v) == "obj" \in DOMAIN v
IsNum(v) == "num" \in DOMAIN v
IsArr(v) == "arr" \in DOMAIN v

EmptyObject == JObj([k \in {} |-> JNull])
Object1(k, v) == JObj([x \in {k} |-> v])

\* an array: its elements, and the properties set on it under names that are
\* no index
JArr(xs) == [arr |-> xs, props |-> [k \in {} |-> JNull]]

\* lodash isObject: what can hold properties
isObject(v) == IsObj(v) \/ IsArr(v)
\* the properties of an object or array, and the same value with others
Props(v) == IF IsObj(v) THEN v.obj ELSE v.props
WithProps(v, f) == IF IsObj(v) THEN [v EXCEPT !.obj = f] ELSE [v EXCEPT !.props = f]

\* a query value is a string, for a repeated key an array of query values, or
\* for a bracketed key (a[x]=1) an object
QStr(x) == [qstr |-> x]
QArr(xs) == [qarr |-> xs]
QObj == [qobj |-> TRUE]
IsQStr(v) == "qstr" \in DOMAIN v
IsQArr(v) == "qarr" \in DOMAIN v

ok(v) == [ok |-> TRUE, value |-> v]
err(e) == [ok |-> FALSE, error |-> e]

\* JSON.parse on the strings of the model: the value, or Undefined when it throws
JsonTexts ==
    [x \in {"{}", "{\"a\":{\"b\":1}}", "{\"a\":1}", "5", "1", "null", "true",
            "{\"a\":{\"b\":1,\"d\":3},\"c\":2}", "{\"api_key\":\"k\"}",
            "[1]", "\"s\"", "42", "{\"b\":2}", "2"} |->
        CASE x = "{}" -> EmptyObject
          [] x = "{\"a\":{\"b\":1}}" -> Object1("a", Object1("b", JNum(1)))
          [] x = "{\"a\":1}" -> Object1("a", JNum(1))
          [] x = "{\"a\":{\"b\":1,\"d\":3},\"c\":2}" ->
                 JObj([k \in {"a", "c"} |->
                         IF k = "c" THEN JNum(2)
                         ELSE JObj([j \in {"b", "d"} |->
                                      IF j = "b" THEN JNum(1) ELSE JNum(3)])])
          [] x = "{\"api_key\":\"k\"}" -> Object1("api_key", JStr("k"))
          [] x = "[1]" -> JArr(<<JNum(1)>>)
          [] x = "\"s\"" -> JStr("s")
          [] x = "42" -> JNum(42)
          [] x = "{\"b\":2}" -> Object1("b", JNum(2))
          [] x = "5" -> JNum(5)
          [] x = "2" -> JNum(2)
          [] x = "1" -> JNum(1)
          [] x = "null" -> JNull
          [] x = "true" -> JBool(TRUE)]

Throws(x) == x \notin DOMAIN JsonTexts
JSONparse(x) == IF Throws(x) THEN Undefined ELSE JsonTexts[x]

\* Buffer.from(x, "base64").toString() on the strings of the model; the
\* decoder drops what is not base64 and never throws
Base64Texts ==
    [x \in {"e30=", "eyJhIjp7ImIiOjF9fQ==", "eyJhIjoxfQ==", "NQ==", "bnVsbA==",
            "eyJh", "%%%", "eyJhIjp7ImIiOjEsImQiOjN9LCJjIjoyfQ==",
            "eyJhcGlfa2V5IjoiayJ9", "WzFd", "InMi"} |->
        CASE x = "e30=" -> "{}"
          [] x = "eyJhIjp7ImIiOjEsImQiOjN9LCJjIjoyfQ==" ->
                 "{\"a\":{\"b\":1,\"d\":3},\"c\":2}"
          [] x = "eyJhcGlfa2V5IjoiayJ9" -> "{\"api_key\":\"k\"}"
          [] x = "WzFd" -> "[1]"
          [] x = "InMi" -> "\"s\""
          [] x = "eyJhIjp7ImIiOjF9fQ==" -> "{\"a\":{\"b\":1}}"
          [] x = "eyJhIjoxfQ==" -> "{\"a\":1}"
          [] x = "NQ==" -> "5"
          [] x = "bnVsbA==" -> "null"
          [] x = "eyJh" -> "{\"a"
          [] x = "%%%" -> ""]

\* the text a config parameter decodes to; an array gives bytes that are no JSON
bufferFromBase64(v) == IF IsQStr(v) THEN Base64Texts[v.qstr] ELSE "NUL NUL"

\* req.query[key], Undefined when the key is absent
QueryValue(q, key) ==
    LET hits == {i \in 1..Len(q) : q[i].key = key}
    IN  IF hits = {} THEN Undefined ELSE q[CHOOSE i \in hits : TRUE].value

\* if (req.query.config): absent and the empty string are falsy
ConfigGiven(r) ==
    LET v == QueryValue(r.query, <<"config">>)
    IN  v # Undefined /\ v # QStr("")

\* a decoding of the config parameter that takes what does not parse for {}
decodeConfigParamLenient(r) ==
    IF ~ConfigGiven(r) THEN [threw |-> FALSE, config |-> EmptyObject]
    ELSE LET text == bufferFromBase64(QueryValue(r.query, <<"config">>))
         IN  [threw |-> FALSE,
              config |-> IF Throws(text) THEN EmptyObject ELSE JSONparse(text)]

\* step 1: config = {} or parseExpressRequestConfig(req), which may throw
decodeConfigParam(r) ==
    IF ~ConfigGiven(r) THEN [threw |-> FALSE, config |-> EmptyObject]
    ELSE LET text == bufferFromBase64(QueryValue(r.query, <<"config">>))
         IN  [threw |-> Throws(text), config |-> JSONparse(text)]

\* f with key k set to v
Put(f, k, v) == [x \in DOMAIN f \cup {k} |-> IF x = k THEN v ELSE f[x]]

\* an assignment that stops at a segment holding a value that is no object
RECURSIVE setKeepingPrimitives(_, _, _)
setKeepingPrimitives(object, path, value) ==
    IF ~isObject(object) THEN object
    ELSE LET k == Head(path)
             f == Props(object)
         IN  IF Len(path) = 1
             THEN IF k \in DOMAIN f /\ isObject(f[k]) THEN object
                  ELSE WithProps(object, Put(f, k, value))
             ELSE IF k \in DOMAIN f /\ ~isObject(f[k]) THEN object
             ELSE LET child == IF k \in DOMAIN f THEN f[k] ELSE EmptyObject
                  IN  WithProps(object,
                                Put(f, k, setKeepingPrimitives(child, Tail(path), value)))

\* an assignment that is dropped when its path leads through a value that is
\* no object
RECURSIVE setStoppingAtValues(_, _, _)
setStoppingAtValues(object, path, value) ==
    IF ~isObject(object) THEN object
    ELSE LET k == Head(path)
             f == Props(object)
         IN  IF Len(path) = 1 THEN WithProps(object, Put(f, k, value))
             ELSE IF k \in DOMAIN f /\ ~isObject(f[k]) THEN object
             ELSE LET child == IF k \in DOMAIN f THEN f[k] ELSE EmptyObject
                  IN  WithProps(object,
                                Put(f, k, setStoppingAtValues(child, Tail(path), value)))

\* _.set(object, path, value): no effect on what is not an object; a segment
\* on the way that holds no object gets a new one
RECURSIVE set(_, _, _)
set(object, path, value) ==
    IF ~isObject(object) THEN object
    ELSE LET k == Head(path)
             f == Props(object)
         IN  IF Len(path) = 1 THEN WithProps(object, Put(f, k, value))
             ELSE LET child == IF k \in DOMAIN f /\ isObject(f[k]) THEN f[k] ELSE EmptyObject
                  IN  WithProps(object, Put(f, k, set(child, Tail(path), value)))

\* a skip list that forgets api_key
ReservedWithoutApiKey == {<<"config">>, <<"profile">>}

\* the keys line 88 skips
Reserved == {<<"config">>, <<"api_key">>, <<"profile">>}

\* a round of the loop that lets a value the blob already holds stand
applyEntryBlobFirst(config, entry) ==
    LET rawValue == IF IsQArr(entry.value) THEN entry.value.qarr[1] ELSE entry.value
        parsedValue == IF Throws(rawValue.qstr) THEN JStr(rawValue.qstr)
                       ELSE JSONparse(rawValue.qstr)
    IN  IF entry.key \in Reserved THEN config
        ELSE IF ~IsQStr(rawValue) THEN config
        ELSE IF Len(entry.key) = 2 /\ isObject(config)
                /\ entry.key[1] \in DOMAIN Props(config)
                /\ isObject(Props(config)[entry.key[1]])
                /\ entry.key[2] \in DOMAIN Props(Props(config)[entry.key[1]])
        THEN config
        ELSE set(config, entry.key, parsedValue)

\* a round of the loop that assigns the text as it came
applyEntryRaw(config, entry) ==
    LET rawValue == IF IsQArr(entry.value) THEN entry.value.qarr[1] ELSE entry.value
    IN  IF entry.key \in Reserved THEN config
        ELSE IF ~IsQStr(rawValue) THEN config
        ELSE set(config, entry.key, JStr(rawValue.qstr))

\* a round of the loop that takes the last element of an array
applyEntryLastElement(config, entry) ==
    LET rawValue == IF IsQArr(entry.value)
                    THEN IF Len(entry.value.qarr) = 0 THEN Undefined
                         ELSE entry.value.qarr[Len(entry.value.qarr)]
                    ELSE entry.value
    IN  IF entry.key \in Reserved THEN config
        ELSE IF ~IsQStr(rawValue) THEN config
        ELSE LET parsedValue == IF Throws(rawValue.qstr) THEN JStr(rawValue.qstr)
                                ELSE JSONparse(rawValue.qstr)
             IN  set(config, entry.key, parsedValue)

\* one round of the loop over Object.entries(req.query)
applyEntry(config, entry) ==
    LET rawValue == IF IsQArr(entry.value)
                    THEN IF Len(entry.value.qarr) = 0 THEN Undefined
                         ELSE entry.value.qarr[1]
                    ELSE entry.value
    IN  IF entry.key \in Reserved THEN config
        ELSE IF ~IsQStr(rawValue) THEN config
        ELSE LET parsedValue == IF Throws(rawValue.qstr) THEN JStr(rawValue.qstr)
                                ELSE JSONparse(rawValue.qstr)
             IN  set(config, entry.key, parsedValue)

\* step 2: the loop over the query entries, in their order
RECURSIVE applyOverrides(_, _)
applyOverrides(config, entries) ==
    IF entries = <<>> THEN config
    ELSE applyOverrides(applyEntry(config, Head(entries)), Tail(entries))

\* schemas: a number, or an object of required fields in their order
SNum == [type |-> "number", fields |-> <<>>]
SObj(fields) == [type |-> "object", fields |-> fields]
Field(k, sch) == [key |-> k, schema |-> sch]

\* the value of field k of v, Undefined when v has none
FieldValue(v, k) == IF IsObj(v) /\ k \in DOMAIN v.obj THEN v.obj[k] ELSE Undefined

\* the issues zod reports for v against sch, each with its path
RECURSIVE issuesOf(_, _, _)
issuesOf(sch, v, path) ==
    IF sch.type = "number"
    THEN IF IsNum(v) THEN <<>>
         ELSE << [path |-> path,
                  message |-> IF v = Undefined THEN "Required" ELSE "Expected number"] >>
    ELSE IF ~IsObj(v)
    THEN << [path |-> path,
             message |-> IF v = Undefined THEN "Required" ELSE "Expected object"] >>
    ELSE LET F[i \in 0..Len(sch.fields)] ==
                 IF i = 0 THEN <<>>
                 ELSE F[i - 1] \o issuesOf(sch.fields[i].schema,
                                           FieldValue(v, sch.fields[i].key),
                                           Append(path, sch.fields[i].key))
         IN  F[Len(sch.fields)]

\* the data zod returns for a valid v: the fields of the schema, nothing else
RECURSIVE narrowed(_, _)
narrowed(sch, v) ==
    IF sch.type = "number" THEN v
    ELSE LET keys == {sch.fields[i].key : i \in 1..Len(sch.fields)}
             schemaOf(k) == (CHOOSE i \in 1..Len(sch.fields) : sch.fields[i].key = k)
         IN  JObj([k \in keys |-> narrowed(sch.fields[schemaOf(k)].schema, v.obj[k])])

zodSafeParse(sch, v) ==
    LET issues == issuesOf(sch, v, <<>>)
    IN  IF issues = <<>> THEN [success |-> TRUE, data |-> narrowed(sch, v), issues |-> <<>>]
        ELSE [success |-> FALSE, data |-> Undefined, issues |-> issues]

\* the value found in config along path, Undefined when the path leaves it
RECURSIVE received(_, _)
received(config, path) ==
    IF path = <<>> THEN config
    ELSE IF isObject(config) /\ Head(path) \in DOMAIN Props(config)
    THEN received(Props(config)[Head(path)], Tail(path))
    ELSE Undefined

\* path.join(sep)
RECURSIVE join(_, _)
join(path, sep) ==
    IF path = <<>> THEN ""
    ELSE IF Len(path) = 1 THEN path[1]
    ELSE path[1] \o sep \o join(Tail(path), sep)

\* an entry of errors that names the path by its last segment alone
errorEntryLastSegment(config, issue) ==
    [param |-> IF issue.path = <<>> THEN "root" ELSE issue.path[Len(issue.path)],
     pointer |-> "/" \o join(issue.path, "/"),
     reason |-> issue.message,
     received |-> received(config, issue.path)]

\* one entry of errors
errorEntry(config, issue) ==
    [param |-> IF join(issue.path, ".") = "" THEN "root" ELSE join(issue.path, "."),
     pointer |-> "/" \o join(issue.path, "/"),
     reason |-> issue.message,
     received |-> received(config, issue.path)]

\* the JSON schema of sch: its type and, for an object, its properties, all
\* of them required
RECURSIVE zodToJsonSchema(_)
zodToJsonSchema(sch) ==
    IF sch.type = "number" THEN [type |-> "number"]
    ELSE [type |-> "object",
          properties |-> [i \in 1..Len(sch.fields) |->
                            [key |-> sch.fields[i].key,
                             schema |-> zodToJsonSchema(sch.fields[i].schema)]],
          required |-> [i \in 1..Len(sch.fields) |-> sch.fields[i].key],
          additionalProperties |-> FALSE]

\* a 400 that carries an empty list of errors
invalidConfigParameterWithErrors(r) ==
    err([title |-> "Invalid config parameter", status |-> 400,
         detail |-> "Failed to parse config parameter", instance |-> r.originalUrl,
         errors |-> <<>>])

invalidConfigParameter(r) ==
    err([title |-> "Invalid config parameter", status |-> 400,
         detail |-> "Failed to parse config parameter", instance |-> r.originalUrl])

invalidConfiguration(r, sch, config, issues) ==
    err([title |-> "Invalid configuration parameters", status |-> 422,
         detail |-> "One or more config parameters are invalid.",
         instance |-> r.originalUrl,
         configSchema |-> zodToJsonSchema(sch),
         errors |-> [i \in 1..Len(issues) |-> errorEntry(config, issues[i])]])

parseAndValidateConfig(r, sch) ==
    LET decoded == decodeConfigParam(r)
        config == applyOverrides(decoded.config, r.query)
        result == zodSafeParse(Get(sch), config)
    IN  IF decoded.threw THEN invalidConfigParameter(r)
        ELSE IF sch = None THEN ok(config)
        ELSE IF ~result.success
        THEN invalidConfiguration(r, Get(sch), config, result.issues)
        ELSE ok(result.data)

\* the requests of the model: a config parameter or none, then overrides
ConfigValues ==
    {QStr(x) : x \in DOMAIN Base64Texts \cup {""}} \cup {QArr(<<QStr("e30="), QStr("e30=")>>)}

Entry(k, v) == [key |-> k, value |-> v]

OverrideLists ==
    { <<>>,
      << Entry(<<"a", "b">>, QStr("5")) >>,
      << Entry(<<"a", "b">>, QStr("abc")) >>,
      << Entry(<<"a", "b">>, QStr("2")) >>,
      << Entry(<<"api_key">>, QStr("k")), Entry(<<"a", "b">>, QStr("5")) >>,
      << Entry(<<"a">>, QStr("1")), Entry(<<"a", "b">>, QStr("5")) >>,
      << Entry(<<"a", "b">>, QStr("1")), Entry(<<"a">>, QStr("5")) >>,
      << Entry(<<"debug">>, QStr("true")), Entry(<<"profile">>, QStr("p")) >>,
      << Entry(<<"a", "b">>, QArr(<<QStr("5"), QStr("abc")>>)) >>,
      << Entry(<<"a", "b">>, QObj), Entry(<<"n">>, QStr("42")) >>,
      << Entry(<<"a", "b">>, QArr(<<QObj, QStr("5")>>)) >>,
      << Entry(<<"n">>, QArr(<<QStr("42"), QStr("abc")>>)), Entry(<<"a", "b">>, QObj) >>,
      << Entry(<<"a">>, QStr("{\"b\":2}")), Entry(<<"n">>, QStr("42")) >>,
      << Entry(<<"api_key", "x">>, QStr("1")) >>,
      << Entry(<<"a">>, QStr("{\"b\":2}")), Entry(<<"a", "d">>, QStr("1")) >>,
      << Entry(<<"debug">>, QStr("true")), Entry(<<"n">>, QStr("42")),
         Entry(<<"c">>, QStr("{\"b\":2}")), Entry(<<"x">>, QStr("abc")) >> }

Queries ==
    OverrideLists
    \cup {<<Entry(<<"config">>, c)>> \o o : c \in ConfigValues, o \in OverrideLists}

ExpressRequests == [query : Queries, originalUrl : {"/mcp?..."}]

\* the schemas of the model: {a: {b: number}} and {a: {b: number}, n: number}
SchemaAB == SObj(<<Field("a", SObj(<<Field("b", SNum)>>))>>)
SchemaABN == SObj(<<Field("a", SObj(<<Field("b", SNum)>>)), Field("n", SNum)>>)
Schemas == {None, Some(SchemaAB), Some(SchemaABN)}

\* a call that takes the parameters it has read out of the request
ResolveConsuming ==
    /\ resolved = None
    /\ resolved' = Some(parseAndValidateConfig(expressReq, schema))
    /\ expressReq' = [expressReq EXCEPT !.query = <<>>]
    /\ UNCHANGED <<schema, resolvedAgain>>
    /\ UNCHANGED <<sdk, stateless>>

\* the server calls parseAndValidateConfig(req, schema)
Resolve ==
    /\ resolved = None
    /\ resolved' = Some(parseAndValidateConfig(expressReq, schema))
    /\ UNCHANGED <<expressReq, schema, resolvedAgain>>
    /\ UNCHANGED <<sdk, stateless>>

\* parseAndValidateConfig is called once more with the request and the schema
\* of the first call
ResolveAgain ==
    /\ resolved # None
    /\ resolvedAgain = None
    /\ resolvedAgain' = Some(parseAndValidateConfig(expressReq, schema))
    /\ UNCHANGED <<expressReq, schema, resolved>>
    /\ UNCHANGED <<sdk, stateless>>

NextConfig == Resolve \/ ResolveAgain

InitConfig ==
    /\ InitSdk({[q |-> None, page |-> None, pageSize |-> None]}, {None},
               {[retryConfig |-> None, timeoutMs |-> None, bearerAuth |-> None]})
    /\ concurrent = None
    /\ expressReq \in ExpressRequests
    /\ schema \in Schemas
    /\ resolved = None
    /\ resolvedAgain = None
    /\ NoServer

SpecConfig == InitConfig /\ [][NextConfig]_vars

---------------------------------------------------------------------------
\* The stateless server (createStatelessServer): the handlers of POST, GET
\* and DELETE /mcp. A handler runs without interruption up to its next await;
\* between the awaits the handlers of other requests and the close events of
\* the responses take their turns.

\* requests the server handles at the same time
MaxRequests == 2

Methods == {"POST", "GET", "DELETE"}

\* the requests of the model: one that resolves, one whose config parameter
\* does not decode, one that resolves to what the schema rejects, one without
\* parameters
ServerQueries ==
    { << Entry(<<"a", "b">>, QStr("5")) >>,
      << Entry(<<"config">>, QStr("eyJh")) >>,
      << Entry(<<"a", "b">>, QStr("abc")) >>,
      <<>> }

ServerRequests == [query : ServerQueries, originalUrl : {"/mcp?..."}]

\* the requests as they reach the handlers; GET comes with two of the
\* queries, DELETE with one
Arrivals ==
    {[method |-> "POST", req |-> r] : r \in ServerRequests}
    \cup {[method |-> "GET", req |-> [query |-> q, originalUrl |-> "/mcp?..."]] :
             q \in {<< Entry(<<"a", "b">>, QStr("5")) >>, << Entry(<<"config">>, QStr("eyJh")) >>}}
    \cup {[method |-> "DELETE",
            req |-> [query |-> << Entry(<<"config">>, QStr("eyJh")) >>, originalUrl |-> "/mcp?..."]]}

\* JSON.stringify of a response body: a property whose value is undefined (the
\* received of an errors entry) is left out
json(body) ==
    IF "errors" \notin DOMAIN body THEN body
    ELSE [body EXCEPT !.errors =
            [n \in DOMAIN body.errors |->
                IF body.errors[n].received = Undefined
                THEN [k \in DOMAIN body.errors[n] \ {"received"} |-> body.errors[n][k]]
                ELSE body.errors[n]]]

\* the JSON-RPC error bodies of the server
jsonRpcError(code, message) ==
    [jsonrpc |-> "2.0", error |-> [code |-> code, message |-> message], id |-> JNull]
internalServerError == jsonRpcError(-32603, "Internal server error")
methodNotAllowed == jsonRpcError(-32000, "Method not allowed in stateless mode")

\* what the transport answers when it handles the request
handled == [jsonrpc |-> "2.0", result |-> "handled", id |-> JNum(1)]

\* a request as it reaches its handler
Arrived(method, r) ==
    [method |-> method, req |-> r, pc |-> "arrived",
     server |-> None, transport |-> None, listening |-> FALSE,
     statuses |-> <<>>, body |-> None, headersSent |-> FALSE, closed |-> FALSE,
     thrown |-> FALSE, caught |-> None]

\* res.status(status).json(body) and res.writeHead(status).end(body)
respond(h, status, body) ==
    [h EXCEPT !.statuses = Append(@, status), !.body = Some(body), !.headersSent = TRUE]

\* a call inside the try block throws
throw(h) == [h EXCEPT !.thrown = TRUE]

\* a catch block that answers 500 whatever has been sent
catchAlways500(h) ==
    [respond(h, 500, json(internalServerError))
        EXCEPT !.caught = Some([headersSent |-> h.headersSent])]

\* the catch block of the POST handler; caught keeps what res.headersSent was
\* when the block was entered
catch(h) ==
    [(IF h.headersSent THEN h ELSE respond(h, 500, json(internalServerError)))
        EXCEPT !.caught = Some([headersSent |-> h.headersSent])]

\* a factory that hands out the instance it made first
sharedInstance(instances, instance) ==
    IF instances = <<>> THEN <<instance>> ELSE instances

\* createMcpServer(...) and new StreamableHTTPServerTransport(...): one more
\* instance, known by its place in the list
newInstance(instances, instance) == Append(instances, instance)

\* what the steps of a handler may run into
CreateOutcomes == {"created", "createMcpServer throws", "transport throws"}
HandleOutcomes == {"responded", "throws", "throws after headers"}

\* a POST handler that creates the server before it looks at the config
PostCreatingFirst(i) ==
    /\ handlers[i].method = "POST"
    /\ handlers[i].pc = "arrived"
    /\ LET h == handlers[i]
           configResult == parseAndValidateConfig(h.req, schema)
           made == newInstance(servers,
                       [config |-> Undefined, transport |-> None, closed |-> FALSE])
           wired == newInstance(transports, [closed |-> FALSE])
       IN  /\ servers' = made
           /\ IF ~configResult.ok
              THEN /\ handlers' = [handlers EXCEPT ![i] =
                          [respond(h, configResult.error.status, json(configResult.error))
                              EXCEPT !.server = Some(Len(made)), !.pc = "done"]]
                   /\ UNCHANGED transports
              ELSE /\ transports' = wired
                   /\ handlers' = [handlers EXCEPT ![i] =
                          [h EXCEPT !.server = Some(Len(made)),
                                    !.transport = Some(Len(wired)),
                                    !.listening = TRUE,
                                    !.pc = "connecting"]]
    /\ UNCHANGED <<sdk, resolver>>

\* POST /mcp from the entry of the handler to await server.connect(transport)
Post(i) ==
    /\ handlers[i].method = "POST"
    /\ handlers[i].pc = "arrived"
    /\ LET h == handlers[i]
           configResult == parseAndValidateConfig(h.req, schema)
       IN  IF ~configResult.ok
           THEN /\ handlers' = [handlers EXCEPT ![i] =
                       [respond(h, configResult.error.status, json(configResult.error))
                           EXCEPT !.pc = "done"]]
                /\ UNCHANGED <<servers, transports>>
           ELSE \E outcome \in CreateOutcomes :
                  LET made == newInstance(servers,
                                  [config |-> configResult.value, transport |-> None,
                                   closed |-> FALSE])
                      wired == newInstance(transports, [closed |-> FALSE])
                  IN  CASE outcome = "createMcpServer throws" ->
                             /\ handlers' = [handlers EXCEPT ![i] = [catch(throw(h)) EXCEPT !.pc = "done"]]
                             /\ UNCHANGED <<servers, transports>>
                        [] outcome = "transport throws" ->
                             /\ servers' = made
                             /\ handlers' = [handlers EXCEPT ![i] =
                                    [catch(throw([h EXCEPT !.server = Some(Len(made))]))
                                        EXCEPT !.pc = "done"]]
                             /\ UNCHANGED transports
                        [] outcome = "created" ->
                             /\ servers' = made
                             /\ transports' = wired
                             /\ handlers' = [handlers EXCEPT ![i] =
                                    [h EXCEPT !.server = Some(Len(made)),
                                              !.transport = Some(Len(wired)),
                                              !.listening = TRUE,
                                              !.pc = "connecting"]]
    /\ UNCHANGED <<sdk, resolver>>

\* await server.connect(transport) ends: the server is on the transport, or
\* the connection threw
Connect(i) ==
    /\ handlers[i].pc = "connecting"
    /\ \E throws \in BOOLEAN :
          IF throws
          THEN /\ handlers' = [handlers EXCEPT ![i] = [catch(throw(@)) EXCEPT !.pc = "done"]]
               /\ UNCHANGED servers
          ELSE /\ servers' = [servers EXCEPT ![Get(handlers[i].server)].transport =
                                  handlers[i].transport]
               /\ handlers' = [handlers EXCEPT ![i].pc = "handling"]
    /\ UNCHANGED transports
    /\ UNCHANGED <<sdk, resolver>>

\* await transport.handleRequest(req, res, req.body) ends
Handle(i) ==
    /\ handlers[i].pc = "handling"
    /\ \E outcome \in HandleOutcomes :
          handlers' = [handlers EXCEPT ![i] =
              [(CASE outcome = "responded" -> respond(@, 200, handled)
                  [] outcome = "throws" -> catch(throw(@))
                  [] outcome = "throws after headers" -> catch(throw(respond(@, 200, handled))))
                 EXCEPT !.pc = "done"]]
    /\ UNCHANGED <<servers, transports>>
    /\ UNCHANGED <<sdk, resolver>>

\* the response closes (it has ended, or the peer has gone): the listener of
\* res.on("close"), when there is one, closes the transport, then the server
Close(i) ==
    /\ handlers[i].pc # "arrived"
    /\ ~handlers[i].closed
    /\ handlers' = [handlers EXCEPT ![i].closed = TRUE]
    /\ IF handlers[i].listening
       THEN /\ transports' = [transports EXCEPT ![Get(handlers[i].transport)].closed = TRUE]
            /\ servers' = [servers EXCEPT ![Get(handlers[i].server)].closed = TRUE]
       ELSE UNCHANGED <<servers, transports>>
    /\ UNCHANGED <<sdk, resolver>>

\* GET and DELETE handlers that look at the config before they refuse
RefuseAfterValidation(i) ==
    /\ handlers[i].method \in {"GET", "DELETE"}
    /\ handlers[i].pc = "arrived"
    /\ LET configResult == parseAndValidateConfig(handlers[i].req, schema)
       IN  handlers' = [handlers EXCEPT ![i] =
               [(IF configResult.ok THEN respond(@, 405, json(methodNotAllowed))
                 ELSE respond(@, configResult.error.status, json(configResult.error)))
                  EXCEPT !.pc = "done"]]
    /\ UNCHANGED <<servers, transports>>
    /\ UNCHANGED <<sdk, resolver>>

\* GET /mcp and DELETE /mcp
Refuse(i) ==
    /\ handlers[i].method \in {"GET", "DELETE"}
    /\ handlers[i].pc = "arrived"
    /\ handlers' = [handlers EXCEPT ![i] = [respond(@, 405, json(methodNotAllowed)) EXCEPT !.pc = "done"]]
    /\ UNCHANGED <<servers, transports>>
    /\ UNCHANGED <<sdk, resolver>>

NextServer ==
    \E i \in 1..Len(handlers) :
        Post(i) \/ Connect(i) \/ Handle(i) \/ Close(i) \/ Refuse(i)

\* up to MaxRequests requests, of any method, are in the server at once
InitServer ==
    /\ InitSdk({[q |-> None, page |-> None, pageSize |-> None]}, {None},
               {[retryConfig |-> None, timeoutMs |-> None, bearerAuth |-> None]})
    /\ concurrent = None
    /\ expressReq = [query |-> <<>>, originalUrl |-> "/mcp"]
    /\ schema \in {None, Some(SchemaAB)}
    /\ resolved = None
    /\ resolvedAgain = None
    /\ \E n \in 1..MaxRequests :
          handlers \in [1..n -> {Arrived(a.method, a.req) : a \in Arrivals}]
    /\ servers = <<>>
    /\ transports = <<>>

SpecServer == InitServer /\ [][NextServer]_vars

\* a server without schema, for POST requests that resolve or do not decode,
\* and GET requests
InitServerFair ==
    /\ InitSdk({[q |-> None, page |-> None, pageSize |-> None]}, {None},
               {[retryConfig |-> None, timeoutMs |-> None, bearerAuth |-> None]})
    /\ concurrent = None
    /\ expressReq = [query |-> <<>>, originalUrl |-> "/mcp"]
    /\ schema = None
    /\ resolved = None
    /\ resolvedAgain = None
    /\ \E n \in 1..MaxRequests :
          handlers \in [1..n ->
              {Arrived(a.method, a.req) :
                  a \in {b \in Arrivals :
                            /\ b.method \in {"POST", "GET"}
                            /\ b.req.query \in {<< Entry(<<"a", "b">>, QStr("5")) >>,
                                                 << Entry(<<"config">>, QStr("eyJh")) >>}}}]
    /\ servers = <<>>
    /\ transports = <<>>

\* that server when no handler and no response is left waiting for ever: every
\* await ends and every response closes
SpecServerFair == InitServerFair /\ [][NextServer]_vars /\ WF_vars(NextServer)

---------------------------------------------------------------------------
\* Properties of the page chain.

\* number of items of page p's result array: -1 when the page is an error or
\* its body holds no result array
Items(p) ==
    IF p.ok /\ Get(p.value).resultArray # None
    THEN Get(Get(p.value).resultArray) ELSE -1

\* the first Len(sizes) pages yielded are successes holding sizes[k] items
YieldedSizes(sizes) ==
    /\ Len(yielded) >= Len(sizes)
    /\ \A k \in 1..Len(sizes) : Items(yielded[k]) = sizes[k]

InFlight == pc \in {"sending", "sleeping"}

\* C1: once the current page is an error (whatever stage of $do produced it), it
\* has been yielded and the iterator is exhausted: no step issues a request or
\* yields a page any more, and every next() returns null.
C1_ErrorHaltsIterator ==
    [][(pc = "idle" /\ ~cur.ok) =>
          /\ cur.next = None
          /\ issued' = issued
          /\ yielded' = yielded
          /\ pc' = "idle"
          /\ lastNext' = "null"]_vars

\* an error on page 2, after which the caller advanced and got null; page 3 was
\* not requested
C1_Witness ==
    /\ pc = "idle"
    /\ Len(yielded) = 2
    /\ yielded[1].ok
    /\ ~cur.ok
    /\ cur.call.status = "complete"
    /\ Len(issued) = 2
    /\ nextCalls >= 2
    /\ lastNext = "null"

C3_EmptyPageEndsChain ==
    /\ \A k \in 1..Len(yielded) :
          /\ Items(yielded[k]) > 0 => yielded[k].next # None
          /\ Items(yielded[k]) = 0 => yielded[k].next = None
    /\ YieldedSizes(<<20, 20, 20, 0>>) =>
          /\ Len(yielded) = 4
          /\ Len(issued) = 4
          /\ ~InFlight

C3_Witness ==
    /\ YieldedSizes(<<20, 20, 20, 0>>)
    /\ Len(yielded) = 4
    /\ nextCalls = 4
    /\ lastNext = "null"

\* the current page is an error, or a success with an empty result array
Exhausted == pc = "idle" /\ (~cur.ok \/ Items(cur) = 0)

\* C4: a step taken from an exhausted iterator (a further next()) returns null
\* and changes nothing else: no request is issued, no attempt is made, no page is
\* yielded.
C4_AdvanceAfterExhaustedIsNoOp ==
    [][Exhausted =>
          /\ lastNext' = "null"
          /\ UNCHANGED <<pc, callReq, attempts, last, yielded, issued>>]_vars

\* next() has returned null at least twice on an empty last page
C4_Witness ==
    /\ Exhausted
    /\ Items(cur) = 0
    /\ nextCalls >= Len(yielded) + 1
    /\ lastNext = "null"

\* C5: the page numbers requested are p, p+1, p+2, ... (p the request's page, 1
\* when it has none), and page n+1 is requested only when the outcome of page n
\* has been yielded (and was a success).
C5_PagesInOrder ==
    /\ \A i \in 1..Len(issued) :
          issued[i] = (IF request.page = None THEN 1 ELSE Get(request.page)) + i - 1
    /\ \A i \in 2..Len(issued) :
          /\ Len(yielded) >= i - 1
          /\ yielded[i - 1].ok
          /\ yielded[i - 1].call.request # None
          /\ PageOf(Get(yielded[i - 1].call.request)) = issued[i - 1]
    /\ Len(issued) > Len(yielded) => InFlight

\* the third page of a chain started without a page number is in flight
C5_Witness ==
    /\ request.page = None
    /\ issued = <<1, 2, 3>>
    /\ Len(yielded) = 2
    /\ pc = "sending"

\* C6: the call itself requests the first page only, and page requests never
\* outnumber 1 + the caller's next() calls.
C6_NoPrefetch ==
    /\ Len(issued) <= 1 + nextCalls
    /\ nextCalls = 0 => (issued = <<>> \/ issued = <<PageOf(request)>>)

\* every next() so far has led to one more request
C6_Witness ==
    /\ nextCalls >= 2
    /\ Len(issued) = 1 + nextCalls
    /\ pc = "idle"

---------------------------------------------------------------------------
\* Properties of one call: retries, validation, the Result, the classification.

\* C7: a 401 response is never retried, whatever the retry configuration and the
\* retry codes of the call: the call never sleeps after a 401, and a call whose
\* first attempt is answered 401 ends at once, after that one attempt, with the
\* 401 entry of the matcher deciding its outcome (Unauthorized when the body
\* decodes against the UnauthorizedError schema, ResponseValidationError when it
\* does not; never a success, never the generic client error).
C7_Unauthorized401NeverRetried ==
    /\ pc = "sleeping" => ~(last.kind = "response" /\ last.status = 401)
    /\ (last.kind = "response" /\ last.status = 401 /\ attempts = 1) =>
          /\ pc = "idle"
          /\ cur.call.status = "complete"
          /\ cur.call.response = Some(last)
          /\ ~cur.ok
          /\ cur.error = IF last.body.json THEN "UnauthorizedError"
                         ELSE "ResponseValidationError"

\* a 401 under strategy backoff with "401" among the call's retry codes: one
\* attempt, outcome Unauthorized
C7_Witness ==
    /\ retryConfigOf(options, client).strategy = "backoff"
    /\ "401" \in retryCodesOf(options)
    /\ pc = "idle"
    /\ attempts = 1
    /\ last.status = 401
    /\ cur.error = "UnauthorizedError"

\* C8: a request with page >= 1 (or none) and pageSize in 1..100 (or none) never
\* ends in an input-validation error, on the first page or on a following one;
\* any other request ends at once in SDKValidationError with call status
\* "invalid", before any transport attempt.
C8_ValidationBeforeNetwork ==
    LET pageOk == request.page = None \/ Get(request.page) >= 1
        sizeOk == request.pageSize = None \/ Get(request.pageSize) \in 1..100
    IN  /\ (pageOk /\ sizeOk) =>
              \A k \in 1..Len(yielded) : yielded[k].error # "SDKValidationError"
        /\ (~(pageOk /\ sizeOk) /\ pc # "start") =>
              /\ pc = "idle"
              /\ Len(yielded) = 1
              /\ ~cur.ok
              /\ cur.error = "SDKValidationError"
              /\ cur.call = [status |-> "invalid", request |-> None, response |-> None]
              /\ issued = <<>>
              /\ attempts = 0
              /\ last = NoOutcome

\* pageSize 101 with a valid page: rejected, nothing sent
C8_Witness ==
    /\ request.pageSize = Some(101)
    /\ request.page = Some(1)
    /\ pc = "idle"
    /\ cur.error = "SDKValidationError"
    /\ issued = <<>>
    /\ lastNext = "null"

\* C9: every page handed to the caller is a success payload or exactly one error
\* variant, never both and never neither; a failed validation or request
\* creation, a transport failure, an error status and an undecodable body each
\* end the call with the matching error value.
C9_ExactlyOneVariant ==
    /\ pc = "idle" => Len(yielded) >= 1
    /\ \A k \in 1..Len(yielded) :
          LET p == yielded[k]
          IN  /\ \/ p.ok /\ p.value # None /\ p.error = NoError
                 \/ ~p.ok /\ p.value = None /\ p.error \in ErrorKinds
              /\ p.call.status = "invalid" =>
                    p.error \in {"SDKValidationError", "InvalidRequestError"}
              /\ p.call.status = "request-error" =>
                    p.error \in {"ConnectionError", "RequestTimeoutError",
                                 "RequestAbortedError", "UnexpectedClientError"}
              /\ p.call.response # None =>
                    (p.ok <=> (Get(p.call.response).status = 200
                               /\ Get(p.call.response).body.json))
    /\ (pc = "idle" /\ last.kind = "failure") =>
          (~cur.ok /\ cur.error = last.error /\ cur.call.status = "request-error")

\* a connection error on the second page, returned as an error value
C9_Witness ==
    /\ pc = "idle"
    /\ Len(yielded) = 2
    /\ yielded[1].ok
    /\ cur.error = "ConnectionError"
    /\ cur.value = None

\* the variant the ordered list 200, 401, 500, 4XX, 5XX gives a status
VariantOf(s) ==
    IF s = 200 THEN "Success"
    ELSE IF s = 401 THEN "UnauthorizedError"
    ELSE IF s = 500 THEN "ServerError"
    ELSE IF s \in 400..499 THEN "SmitheryRegistryError"
    ELSE IF s \in 500..599 THEN "SmitheryRegistryError"
    ELSE "UnexpectedClientError"

C11_UnmatchedStatusIsUnexpected ==
    /\ \A k \in 1..Len(yielded) :
          LET p == yielded[k]
          IN  (p.call.response # None
               /\ Get(p.call.response).status # 200
               /\ Get(p.call.response).status \notin 400..599) =>
                 /\ ~p.ok
                 /\ p.error = "UnexpectedClientError"
                 /\ p.call.status = "complete"
    /\ (pc = "idle" /\ last.kind = "response") =>
          /\ cur.call.response = Some(last)
          /\ (cur.ok \/ cur.error \in ErrorKinds)

\* a 302 has ended the call
C11_Witness ==
    /\ pc = "idle"
    /\ last = Response(302, Json(None))
    /\ cur.error = "UnexpectedClientError"
    /\ cur.call.response = Some(last)

\* C12: a response whose status matches an entry with a schema (200, 401, 500)
\* and whose body does not decode ends the call in a ResponseValidationError:
\* never in a success, never in the generic error of a later pattern (4XX for
\* 401, 5XX for 500), and the page has no continuation.
C12_UndecodableBodyIsValidationError ==
    \A k \in 1..Len(yielded) :
        LET p == yielded[k]
        IN  (p.call.response # None
             /\ Get(p.call.response).status \in {200, 401, 500}
             /\ ~Get(p.call.response).body.json) =>
               /\ ~p.ok
               /\ p.value = None
               /\ p.error = "ResponseValidationError"
               /\ p.error \notin {"SmitheryRegistryError", "UnauthorizedError", "ServerError"}
               /\ p.next = None

\* a 500 with an undecodable body, which 5XX would match too
C12_Witness ==
    /\ pc = "idle"
    /\ last = Response(500, Malformed)
    /\ cur.error = "ResponseValidationError"

---------------------------------------------------------------------------
\* Properties of the retry loop.

\* the status is covered by one of the configured retry codes
CodesCover(codes, status) ==
    \/ "401" \in codes /\ status = 401
    \/ "4XX" \in codes /\ status \in 400..499
    \/ "5XX" \in codes /\ status \in 500..599

\* conditions (a) and (b) on the outcome of the latest attempt
FailedRetryably(except401) ==
    LET cfg == Get(context).retryConfig
    IN  \/ last.kind = "failure" /\ last # onAbort /\ cfg.retryConnectionErrors
        \/ /\ last.kind = "response"
           /\ except401 => last.status # 401
           /\ CodesCover(Get(context).retryCodes, last.status)

\* the budget maxElapsedTime of the call's configuration is used up
BudgetSpent ==
    LET cfg == Get(context).retryConfig
    IN  cfg.backoff # None /\ Exceeds(elapsed, Get(cfg.backoff).maxElapsedTime)

\* a retry is decided only after an attempt that meets (a) or (b) under
\* backoff; an attempt that meets (a) or (b) within the budget does not end
\* the call; under the defaults a response outside 5XX ends it at once
RetriedIff(except401) ==
    /\ pc = "sleeping" =>
          Get(context).retryConfig.strategy = "backoff" /\ FailedRetryably(except401)
    /\ (pc = "idle" /\ last.kind # "none"
        /\ Get(context).retryConfig.strategy = "backoff" /\ ~BudgetSpent) =>
          ~FailedRetryably(except401)
    /\ (options = None /\ last.kind = "response" /\ last.status \notin 500..599) =>
          /\ pc = "idle"
          /\ attempts = 1 => wait = 0

LastOutcomeReturned ==
    /\ ~cur.ok
    /\ cur.next = None
    /\ IF last.kind = "failure"
       THEN cur.error = last.error /\ cur.call.status = "request-error"
       ELSE /\ cur.call.response = Some(last)
            /\ cur.error = IF last.status = 500
                           THEN IF last.body.json THEN "ServerError"
                                ELSE "ResponseValidationError"
                           ELSE "SmitheryRegistryError"

DefaultDelay(n) == IF n >= 12 THEN 60000 * TicksPerMs ELSE 500 * 3^n * 2^(12 - n)

\* initialInterval * 2^n for the caller's backoff, in ticks, while below maxInterval
CallerDelay(n) == IF n >= 4 THEN 1000 * TicksPerMs ELSE 100 * 2^n * TicksPerMs

ConfiguredRetries ==
    IF options # None /\ Get(options).retries # None THEN Get(options).retries
    ELSE client.retryConfig

\* C16: with strategy none, given per call or, with no per-call retries, as the
\* client's retryConfig, a call never sleeps for a retry and starts at most one
\* transport attempt; whatever that attempt gives, a 5XX and a connection error
\* included, ends the call after that one attempt.
C16_NoneMakesOneAttempt ==
    ConfiguredRetries = Some(noRetries) =>
        /\ pc # "sleeping"
        /\ attempts <= 1
        /\ Len(issued) <= Len(yielded) + 1
        /\ last.kind # "none" => (pc = "idle" /\ attempts = 1)

\* with none as the client's default and no per-call options, a 503 has ended
\* the call after one attempt
C16_Witness ==
    /\ options = None
    /\ client.retryConfig = Some(noRetries)
    /\ pc = "idle"
    /\ last = Response(503, Json(None))
    /\ attempts = 1
    /\ Len(issued) = 1

\* C17: when the abort signal fires during a call (a request in flight or a
\* delay between retries) the call returns in that same step with a
\* RequestAbortedError page and without starting an attempt; once the signal
\* has fired, no request is in flight, no delay is pending, and no step starts
\* an attempt, issues a request or yields a page.
C17_AbortEndsTheCall ==
    /\ [](aborted =>
            /\ pc = "idle"
            /\ callReq = None
            /\ ~cur.ok
            /\ cur.error = "RequestAbortedError"
            /\ cur.call.status = "request-error"
            /\ cur.next = None)
    /\ [][(~aborted /\ aborted') =>
            /\ pc \in {"sending", "sleeping"}
            /\ pc' = "idle"
            /\ attempts' = attempts
            /\ issued' = issued
            /\ Len(yielded') = Len(yielded) + 1]_vars
    /\ [][aborted =>
            /\ attempts' = attempts
            /\ issued' = issued
            /\ yielded' = yielded
            /\ pc' = pc]_vars

\* the signal fired during the call for the second page, and the caller has
\* called next() since
C17_Witness ==
    /\ aborted
    /\ Len(yielded) = 2
    /\ yielded[1].ok
    /\ cur.error = "RequestAbortedError"
    /\ lastNext = "null"
    /\ nextCalls = 2

\* C18: the retry configuration of a call's context is the per-call retries
\* when given, else the client's retryConfig when set, else the built-in
\* default (backoff 500 / 60000 / 1.5 / 3600000, retryConnectionErrors true); no
\* step writes the client's options or the caller's options, and every later
\* call of the chain resolves the same configuration.
C18_RetryConfigPrecedence ==
    /\ [](context # None =>
            Get(context).retryConfig =
                IF ConfiguredRetries # None THEN Get(ConfiguredRetries)
                ELSE [strategy |-> "backoff",
                      backoff |-> Some([initialInterval |-> 500, maxInterval |-> 60000,
                                        exponentTimes10 |-> 15,
                                        maxElapsedTime |-> 3600000]),
                      retryConnectionErrors |-> TRUE])
    /\ [][client' = client /\ options' = options]_vars
    /\ [][context # None => context' = context]_vars

\* a second call made with a per-call backoff over a client default of none:
\* the context holds the per-call value and the client still holds none
C18_Witness ==
    /\ Len(issued) = 2
    /\ options # None
    /\ Get(options).retries = Some(callerBackoff)
    /\ client.retryConfig = Some(noRetries)
    /\ Get(context).retryConfig = callerBackoff

\* C19: whenever the caller gives a per-call timeoutMs, that value is the
\* timeout the call passes to the request, whatever the value and whatever the
\* client's default.
C19_PerCallTimeoutWins ==
    (timeoutMs # None /\ options # None /\ Get(options).timeoutMs # None) =>
        Get(timeoutMs) = Get(Get(options).timeoutMs)

---------------------------------------------------------------------------
\* Properties of the config resolver.

\* the config parameter of the request, Undefined when it has none
ConfigParam == QueryValue(expressReq.query, <<"config">>)

\* config parameters of the model that do not decode to a JSON text
Undecodable ==
    {QStr("eyJh"), QStr("%%%"), QArr(<<QStr("e30="), QStr("e30=")>>)}

\* the error for a config parameter that does not decode, and nothing else
IsInvalidConfigParameter(res) ==
    /\ ~res.ok
    /\ DOMAIN res = {"ok", "error"}
    /\ DOMAIN res.error = {"title", "status", "detail", "instance"}
    /\ res.error.status = 400
    /\ res.error.title = "Invalid config parameter"
    /\ res.error.instance = expressReq.originalUrl

\* C20 as stated: a config parameter that is present and does not decode to a
\* JSON text, the empty one included, gives the 400 error with title "Invalid
\* config parameter", whatever the other parameters and the schema.
C20_PresentUndecodableConfigIs400 ==
    (resolved # None /\ ConfigParam \in Undecodable \cup {QStr("")}) =>
        IsInvalidConfigParameter(Get(resolved))

\* C20: a config parameter that is not empty and does not decode to a JSON
\* text gives the 400 error with title "Invalid config parameter", whatever the
\* other parameters and the schema: the result holds no config, no override
\* has been applied and no 422 is reported; an empty config parameter is taken
\* as absent and gives no 400.
C20_UndecodableConfigIs400 ==
    /\ (resolved # None /\ ConfigParam \in Undecodable) =>
          IsInvalidConfigParameter(Get(resolved))
    /\ (resolved # None /\ ConfigParam = QStr("")) =>
          (Get(resolved).ok \/ Get(resolved).error.status = 422)

\* a truncated blob came with an override a.b=5 and a schema that a.b=5 meets
C20_Witness ==
    /\ resolved # None
    /\ expressReq.query = << Entry(<<"config">>, QStr("eyJh")), Entry(<<"a", "b">>, QStr("5")) >>
    /\ schema # None
    /\ Get(resolved).error.status = 400

\* the blob of the request: what its config parameter decodes to, {} when it
\* has none
Blob == decodeConfigParam(expressReq).config

\* the entries of the query that are applied as overrides, in their order
ReservedNames == {"config", "api_key", "profile"}
\* the value of the entry, or the first element of its array, is a string
HasText(e) ==
    \/ IsQStr(e.value)
    \/ IsQArr(e.value) /\ Len(e.value.qarr) > 0 /\ IsQStr(e.value.qarr[1])
IsOverride(e) == ~(Len(e.key) = 1 /\ e.key[1] \in ReservedNames) /\ HasText(e)
Overrides == SelectSeq(expressReq.query, IsOverride)

\* the JSON value an override assigns: its text parsed, or the text itself
Assigned(e) ==
    LET x == IF IsQArr(e.value) THEN e.value.qarr[1].qstr ELSE e.value.qstr
    IN  IF x \in DOMAIN JsonTexts THEN JsonTexts[x] ELSE JStr(x)

Prefix(p, q) == Len(p) <= Len(q) /\ SubSeq(q, 1, Len(p)) = p
\* one path leads through the other
Collide(p, q) == Prefix(p, q) \/ Prefix(q, p)

ConfigKeys == {"a", "b", "c", "d", "n", "x", "debug", "api_key", "profile", "config"}
\* the paths of one or two segments
Paths == {<<k>> : k \in ConfigKeys} \cup {<<k, j>> : k, j \in ConfigKeys}

\* no override of the request touches path p
Untouched(p) == \A i \in 1..Len(Overrides) : ~Collide(Overrides[i].key, p)
\* override i is the last word on its path
Final(i) == \A j \in (i + 1)..Len(Overrides) : ~Collide(Overrides[i].key, Overrides[j].key)

ResolvedOk == resolved # None /\ Get(resolved).ok

\* C21: overrides are applied after the blob and win over it. The request
\* a.b=5 without config parameter resolves to {a:{b:5}}; when the blob is an
\* object, the resolved value at the path of an override (that no later override
\* touches) is the override's value, whatever the blob held there, and every
\* value of the blob on a path no override touches is kept. With a schema the
\* value at a.b of a successful result is the override's as well.
C21_OverridesWinOverBlob ==
    /\ (resolved # None /\ schema = None
            /\ expressReq.query = << Entry(<<"a", "b">>, QStr("5")) >>) =>
          Get(resolved) = ok(Object1("a", Object1("b", JNum(5))))
    /\ (ResolvedOk /\ schema = None /\ isObject(Blob)) =>
          /\ \A i \in 1..Len(Overrides) :
                Final(i) =>
                    received(Get(resolved).value, Overrides[i].key) = Assigned(Overrides[i])
          /\ \A p \in Paths :
                (received(Blob, p) # Undefined /\ Untouched(p)) =>
                    received(Get(resolved).value, p) = received(Blob, p)
    /\ (ResolvedOk /\ schema # None) =>
          \A i \in 1..Len(Overrides) :
              (Final(i) /\ Overrides[i].key = <<"a", "b">>) =>
                  received(Get(resolved).value, <<"a", "b">>) = Assigned(Overrides[i])

\* the blob {a:{b:1,d:3},c:2} came with a.b=5: a.b is 5, a.d and c are kept
C21_Witness ==
    /\ resolved # None
    /\ schema = None
    /\ expressReq.query = << Entry(<<"config">>, QStr("eyJhIjp7ImIiOjEsImQiOjN9LCJjIjoyfQ==")),
                             Entry(<<"a", "b">>, QStr("5")) >>
    /\ received(Get(resolved).value, <<"a", "b">>) = JNum(5)
    /\ received(Get(resolved).value, <<"a", "d">>) = JNum(3)
    /\ received(Get(resolved).value, <<"c">>) = JNum(2)

\* the top-level keys of a resolved value
TopLevelKeys(v) == IF isObject(v) THEN DOMAIN Props(v) ELSE {}

\* C22 as stated: a top-level key config, api_key or profile of the resolved
\* config can only come from inside the decoded blob.
C22_ReservedKeysOnlyFromBlob ==
    (ResolvedOk /\ schema = None) =>
        \A k \in ReservedNames :
            k \in TopLevelKeys(Get(resolved).value) => k \in TopLevelKeys(Blob)

\* C22: the parameters named config, api_key and profile are never applied as
\* overrides. Unless a dotted override leads through that name (api_key.x), the
\* resolved config holds under config, api_key and profile exactly what the
\* blob holds there (nothing when the blob has no such key), whatever the
\* values of the three parameters. With the schemas of the model, which have none
\* of these fields, a successful result has none of these keys.
C22_ReservedParamsNotApplied ==
    /\ (ResolvedOk /\ schema = None) =>
          \A k \in ReservedNames :
              Untouched(<<k>>) =>
                  received(Get(resolved).value, <<k>>) = received(Blob, <<k>>)
    /\ (ResolvedOk /\ schema # None) =>
          TopLevelKeys(Get(resolved).value) \cap ReservedNames = {}

\* api_key=k came with a.b=5 and no blob: the result is {a:{b:5}} alone
C22_Witness ==
    /\ resolved # None
    /\ schema = None
    /\ expressReq.query = << Entry(<<"api_key">>, QStr("k")), Entry(<<"a", "b">>, QStr("5")) >>
    /\ Get(resolved) = ok(Object1("a", Object1("b", JNum(5))))

\* the merged config: the blob with the overrides applied
Merged == applyOverrides(Blob, expressReq.query)
\* the call got past the decoding of the config parameter
Decoded == ~decodeConfigParam(expressReq).threw
\* the issues the schema of the request finds in the merged config
Issues == zodSafeParse(Get(schema), Merged).issues

\* param and pointer of the paths an issue of the model can have
ParamOf(path) ==
    CASE path = <<>> -> "root"
      [] path = <<"a">> -> "a"
      [] path = <<"a", "b">> -> "a.b"
      [] path = <<"n">> -> "n"
PointerOf(path) ==
    CASE path = <<>> -> "/"
      [] path = <<"a">> -> "/a"
      [] path = <<"a", "b">> -> "/a/b"
      [] path = <<"n">> -> "/n"

\* the schemas of the model as JSON schemas
RenderedA ==
    [key |-> "a",
     schema |-> [type |-> "object",
                 properties |-> << [key |-> "b", schema |-> [type |-> "number"]] >>,
                 required |-> <<"b">>,
                 additionalProperties |-> FALSE]]
RenderedSchema ==
    IF schema = Some(SchemaAB)
    THEN [type |-> "object", properties |-> <<RenderedA>>,
          required |-> <<"a">>, additionalProperties |-> FALSE]
    ELSE [type |-> "object",
          properties |-> <<RenderedA, [key |-> "n", schema |-> [type |-> "number"]]>>,
          required |-> <<"a", "n">>, additionalProperties |-> FALSE]

ErrorsOf(res) == res.error.errors

\* C23: with a schema, a merged config that fails validation gives the error
\* with status 422 and title "Invalid configuration parameters", the schema
\* rendered as configSchema, and one errors entry per issue, in their order:
\* param is the path dot-joined ("root" for the empty path), pointer the path
\* in pointer form, reason the message, received the value of the merged config
\* at the path, undefined when the path is absent. So a.b=abc gives the entry
\* (a.b, /a/b, received "abc"), no parameter at all gives (a, /a, Required,
\* received undefined), followed by the same for n when the schema has the
\* field n, and the blob 5 gives (root, /, received 5).
C23_InvalidConfigurationIs422 ==
    /\ (resolved # None /\ schema # None /\ Decoded /\ Issues # <<>>) =>
          /\ ~Get(resolved).ok
          /\ Get(resolved).error.status = 422
          /\ Get(resolved).error.title = "Invalid configuration parameters"
          /\ Get(resolved).error.configSchema = RenderedSchema
          /\ Len(ErrorsOf(Get(resolved))) = Len(Issues)
          /\ \A i \in 1..Len(Issues) :
                ErrorsOf(Get(resolved))[i] =
                    [param |-> ParamOf(Issues[i].path),
                     pointer |-> PointerOf(Issues[i].path),
                     reason |-> Issues[i].message,
                     received |-> received(Merged, Issues[i].path)]
    /\ (resolved # None /\ schema = Some(SchemaAB)) =>
          /\ expressReq.query = << Entry(<<"a", "b">>, QStr("abc")) >> =>
                ErrorsOf(Get(resolved)) =
                    << [param |-> "a.b", pointer |-> "/a/b",
                        reason |-> "Expected number", received |-> JStr("abc")] >>
          /\ expressReq.query = <<>> =>
                ErrorsOf(Get(resolved)) =
                    << [param |-> "a", pointer |-> "/a",
                        reason |-> "Required", received |-> Undefined] >>
    /\ (resolved # None /\ schema = Some(SchemaABN) /\ expressReq.query = <<>>) =>
          ErrorsOf(Get(resolved)) =
              << [param |-> "a", pointer |-> "/a",
                  reason |-> "Required", received |-> Undefined],
                 [param |-> "n", pointer |-> "/n",
                  reason |-> "Required", received |-> Undefined] >>
    /\ (resolved # None /\ schema # None) =>
          /\ expressReq.query = << Entry(<<"config">>, QStr("NQ==")) >> =>
                ErrorsOf(Get(resolved)) =
                    << [param |-> "root", pointer |-> "/",
                        reason |-> "Expected object", received |-> JNum(5)] >>

\* the blob {a:1} came with the schema {a: {b: number}, n: number}: an entry
\* for a and one for n
C23_Witness ==
    /\ resolved # None
    /\ schema = Some(SchemaABN)
    /\ expressReq.query = << Entry(<<"config">>, QStr("eyJhIjoxfQ==")),
                             Entry(<<"debug">>, QStr("true")), Entry(<<"profile">>, QStr("p")) >>
    /\ Get(resolved).error.status = 422
    /\ ErrorsOf(Get(resolved)) =
          << [param |-> "a", pointer |-> "/a",
              reason |-> "Expected object", received |-> JNum(1)],
             [param |-> "n", pointer |-> "/n",
              reason |-> "Required", received |-> Undefined] >>

\* C24: every error result has the keys title, status, detail and instance,
\* its status is 400 or 422, and it has the keys configSchema and errors if
\* and only if its status is 422.
C24_ErrorShape ==
    (resolved # None /\ ~Get(resolved).ok) =>
        /\ {"title", "status", "detail", "instance"} \subseteq DOMAIN Get(resolved).error
        /\ Get(resolved).error.status \in {400, 422}
        /\ "configSchema" \in DOMAIN Get(resolved).error <=> Get(resolved).error.status = 422
        /\ "errors" \in DOMAIN Get(resolved).error <=> Get(resolved).error.status = 422
        /\ DOMAIN Get(resolved).error \subseteq
              {"title", "status", "detail", "instance", "configSchema", "errors"}

\* a request without parameters failed the schema: a 422 with both keys
C24_Witness ==
    /\ resolved # None
    /\ schema = Some(SchemaAB)
    /\ expressReq.query = <<>>
    /\ ~Get(resolved).ok
    /\ DOMAIN Get(resolved).error =
          {"title", "status", "detail", "instance", "configSchema", "errors"}
    /\ Get(resolved).error.status = 422

Nested(i, j) ==
    /\ i < j
    /\ Overrides[i].key # Overrides[j].key
    /\ Collide(Overrides[i].key, Overrides[j].key)

\* the request has no config parameter and just the overrides k1=v1, k2=v2
TwoOverrides(k1, v1, k2, v2) ==
    expressReq.query = << Entry(k1, QStr(v1)), Entry(k2, QStr(v2)) >>

\* C26 as stated: a later override whose path is a strict prefix or a strict
\* extension of an earlier override's path leaves the earlier override's value
\* in place.
C26_NestedOverrideKeepsEarlier ==
    (ResolvedOk /\ schema = None /\ isObject(Blob)) =>
        \A i, j \in 1..Len(Overrides) :
            Nested(i, j) =>
                received(Get(resolved).value, Overrides[i].key) = Assigned(Overrides[i])

\* C26: the later override always has its value at its path. When its path
\* is a strict prefix of an earlier path, the earlier value goes with what the
\* later one replaces (a.b=1 then a=5 gives {a:5}); when it is a strict
\* extension, it is written into the earlier value if that is an object
\* (a={"b":2} then a.d=1 gives {a:{b:2,d:1}}) and into a new object that
\* replaces the earlier value if it is not (a=1 then a.b=5 gives {a:{b:5}}).
\* Overrides whose paths do not lead through one another keep their values.
C26_NestedOverrideReplaces ==
    /\ (ResolvedOk /\ schema = None /\ isObject(Blob)) =>
          /\ \A i \in 1..Len(Overrides) :
                Final(i) =>
                    received(Get(resolved).value, Overrides[i].key) = Assigned(Overrides[i])
          /\ \A i, j \in 1..Len(Overrides) :
                (Nested(i, j) /\ Final(j)) =>
                    /\ received(Get(resolved).value, Overrides[j].key) = Assigned(Overrides[j])
                    /\ isObject(received(Get(resolved).value, Overrides[i].key))
                           = Prefix(Overrides[i].key, Overrides[j].key)
                    /\ ~isObject(Assigned(Overrides[i])) =>
                           received(Get(resolved).value, Overrides[i].key)
                               # Assigned(Overrides[i])
    /\ (resolved # None /\ schema = None) =>
          /\ TwoOverrides(<<"a">>, "1", <<"a", "b">>, "5") =>
                Get(resolved) = ok(Object1("a", Object1("b", JNum(5))))
          /\ TwoOverrides(<<"a", "b">>, "1", <<"a">>, "5") =>
                Get(resolved) = ok(Object1("a", JNum(5)))
          /\ TwoOverrides(<<"a">>, "{\"b\":2}", <<"a", "d">>, "1") =>
                Get(resolved) =
                    ok(Object1("a", JObj([k \in {"b", "d"} |->
                                            IF k = "b" THEN JNum(2) ELSE JNum(1)])))
          /\ TwoOverrides(<<"a">>, "{\"b\":2}", <<"n">>, "42") =>
                Get(resolved) =
                    ok(JObj([k \in {"a", "n"} |->
                               IF k = "a" THEN Object1("b", JNum(2)) ELSE JNum(42)]))

\* a=1 then a.b=5 without blob or schema: the 1 is gone
C26_Witness ==
    /\ resolved # None
    /\ schema = None
    /\ TwoOverrides(<<"a">>, "1", <<"a", "b">>, "5")
    /\ received(Get(resolved).value, <<"a">>) = Object1("b", JNum(5))

\* a key-value mapping: an object that is no array
IsMapping(v) == IsObj(v) /\ ~IsArr(v)

\* the fields a schema of the model declares
SchemaKeys(sch) == {sch.fields[i].key : i \in 1..Len(sch.fields)}

\* C27: every request whose config parameter decodes (or is absent) and that
\* has no schema succeeds, and a success holds the merged object: without a
\* schema a key-value mapping, also when the blob is a number, a string, null
\* or an array; with a schema a mapping of the schema's fields with the merged
\* config's values.
C27_SuccessIsMergedObject ==
    /\ (resolved # None /\ schema = None /\ Decoded) =>
          /\ Get(resolved).ok
          /\ IsMapping(Get(resolved).value)
    /\ (ResolvedOk /\ schema # None) =>
          /\ IsMapping(Get(resolved).value)
          /\ TopLevelKeys(Get(resolved).value) = SchemaKeys(Get(schema))
          /\ \A k \in SchemaKeys(Get(schema)) :
                IsNum(received(Merged, <<k>>)) =>
                    received(Get(resolved).value, <<k>>) = received(Merged, <<k>>)

\* what the override texts of the model stand for
ValueOfText(x) ==
    CASE x = "true" -> JBool(TRUE)
      [] x = "42" -> JNum(42)
      [] x = "5" -> JNum(5)
      [] x = "2" -> JNum(2)
      [] x = "1" -> JNum(1)
      [] x = "{\"b\":2}" -> Object1("b", JNum(2))
      [] OTHER -> JStr(x)

\* the text of an override: the parameter's value, its first when repeated
TextOf(e) == IF IsQArr(e.value) THEN e.value.qarr[1].qstr ELSE e.value.qstr

\* C28: an override's text is parsed as JSON before it is assigned, so that
\* true, 42 and {"b":2} arrive as a boolean, a number and an object, and a
\* text that is no JSON (abc) arrives unchanged as a string. A text that does
\* not parse causes no error: once the config parameter is decoded, a call
\* without schema succeeds, and with a schema the only error is the 422 of the
\* validation.
C28_OverrideValuesAreParsed ==
    /\ (ResolvedOk /\ schema = None /\ isObject(Blob)) =>
          \A i \in 1..Len(Overrides) :
              Final(i) =>
                  received(Get(resolved).value, Overrides[i].key)
                      = ValueOfText(TextOf(Overrides[i]))
    /\ (resolved # None /\ Decoded) =>
          /\ schema = None => Get(resolved).ok
          /\ ~Get(resolved).ok => Get(resolved).error.status = 422

\* debug=true, n=42, c={"b":2} and x=abc came without blob or schema
C28_Witness ==
    /\ resolved # None
    /\ schema = None
    /\ expressReq.query =
          << Entry(<<"debug">>, QStr("true")), Entry(<<"n">>, QStr("42")),
             Entry(<<"c">>, QStr("{\"b\":2}")), Entry(<<"x">>, QStr("abc")) >>
    /\ Get(resolved).ok
    /\ received(Get(resolved).value, <<"debug">>) = JBool(TRUE)
    /\ received(Get(resolved).value, <<"n">>) = JNum(42)
    /\ received(Get(resolved).value, <<"c", "b">>) = JNum(2)
    /\ received(Get(resolved).value, <<"x">>) = JStr("abc")

---------------------------------------------------------------------------
\* Properties of the stateless server.

\* the handlers that got a server, and those that got a transport
WithServer == {i \in 1..Len(handlers) : handlers[i].server # None}
WithTransport == {i \in 1..Len(handlers) : handlers[i].transport # None}

\* the POST request of handler i has passed config validation
PassedValidation(i) ==
    /\ handlers[i].method = "POST"
    /\ handlers[i].pc # "arrived"
    /\ parseAndValidateConfig(handlers[i].req, schema).ok

\* C29: every POST request that has passed config validation and for which
\* neither createMcpServer nor the transport's constructor threw has a server
\* and a transport of its own: no two requests hold the same server or the
\* same transport, every server and transport created belongs to exactly one
\* request, and a server is connected to no transport but its own request's.
C29_InstancePerRequest ==
    /\ \A i, j \in 1..Len(handlers) :
          i # j =>
              /\ (i \in WithServer /\ j \in WithServer) =>
                     handlers[i].server # handlers[j].server
              /\ (i \in WithTransport /\ j \in WithTransport) =>
                     handlers[i].transport # handlers[j].transport
    /\ Len(servers) = Cardinality(WithServer)
    /\ Len(transports) = Cardinality(WithTransport)
    /\ \A i \in 1..Len(handlers) :
          /\ i \in WithServer => PassedValidation(i)
          /\ (PassedValidation(i) /\ handlers[i].pc \in {"connecting", "handling"}) =>
                 (i \in WithServer /\ i \in WithTransport)
          /\ (i \in WithServer /\ servers[Get(handlers[i].server)].transport # None) =>
                 servers[Get(handlers[i].server)].transport = handlers[i].transport

\* two POST requests are being handled at once, each connected on its own
\* server and transport
C29_Witness ==
    /\ Len(handlers) = 2
    /\ handlers[1].pc = "handling"
    /\ handlers[2].pc = "handling"
    /\ handlers[1].server # handlers[2].server
    /\ handlers[1].transport # handlers[2].transport
    /\ servers[Get(handlers[1].server)].transport = handlers[1].transport
    /\ servers[Get(handlers[2].server)].transport = handlers[2].transport

---------------------------------------------------------------------------
\* Properties of the security of a call.

\* the client's credential source resolves to no credential
NoCredential == client.bearerAuth \in {None, Supplier(None)}

\* C30: when the credential source resolves to no credential the call does not
\* fail for it: the request is created with no security (no Authorization
\* header) and goes to the transport like any other, the only local failure
\* being that of the request's creation; with a credential the request carries
\* it as a bearer header. A 401 whose body decodes is reported as
\* UnauthorizedError, and nothing but a 401 is ever reported so.
C30_NoCredentialGoesToTheServer ==
    /\ (NoCredential /\ security # None) => security = Some(None)
    /\ (NoCredential /\ pc # "start") =>
          /\ security = Some(None)
          /\ issued = <<>> =>
                (yielded # <<>> /\ yielded[1].error = "InvalidRequestError")
    /\ (client.bearerAuth = StaticToken("secret") /\ security # None) =>
          security = Some(Some([Authorization |-> "Bearer secret"]))
    /\ (client.bearerAuth = Supplier(Some("fresh")) /\ security # None) =>
          security = Some(Some([Authorization |-> "Bearer fresh"]))
    /\ \A k \in 1..Len(yielded) :
          /\ (yielded[k].call.response # None
                 /\ Get(yielded[k].call.response).status = 401
                 /\ Get(yielded[k].call.response).body.json) =>
                (~yielded[k].ok /\ yielded[k].error = "UnauthorizedError")
          /\ yielded[k].error = "UnauthorizedError" =>
                /\ yielded[k].call.status = "complete"
                /\ Get(yielded[k].call.response).status = 401

\* a supplier returned no credential; the request went out without security
\* and the server's 401 came back as UnauthorizedError
C30_Witness ==
    /\ client.bearerAuth = Supplier(None)
    /\ security = Some(None)
    /\ issued = <<1>>
    /\ pc = "idle"
    /\ last.status = 401
    /\ cur.call.status = "complete"
    /\ cur.error = "UnauthorizedError"

\* the POST request of handler i has been refused for its config
FailedValidation(i) ==
    /\ handlers[i].method = "POST"
    /\ handlers[i].pc # "arrived"
    /\ ~parseAndValidateConfig(handlers[i].req, schema).ok

UndecodableQuery == << Entry(<<"config">>, QStr("eyJh")) >>

\* C31: a POST request whose config does not parse or validate is answered
\* once, with the status of the error (400 or 422) and the error object as the
\* JSON body, and the handler ends there: no server and no transport exists
\* for the request, then or later. The undecodable config parameter gives the
\* 400 "Invalid config parameter"; the request without parameters under the
\* schema gives the 422 whose entry for a has no received in the JSON, the
\* value being undefined.
C31_ConfigErrorIsAnswered ==
    \A i \in 1..Len(handlers) :
        FailedValidation(i) =>
            LET e == parseAndValidateConfig(handlers[i].req, schema).error
                h == handlers[i]
            IN  /\ h.pc = "done"
                /\ h.statuses = <<e.status>>
                /\ e.status \in {400, 422}
                /\ h.body # None
                /\ Get(h.body).title = e.title
                /\ Get(h.body).status = e.status
                /\ Get(h.body).detail = e.detail
                /\ Get(h.body).instance = h.req.originalUrl
                /\ h.server = None
                /\ h.transport = None
                /\ ~h.listening
                /\ h.req.query = UndecodableQuery =>
                      /\ h.statuses = <<400>>
                      /\ Get(h.body) = e
                      /\ e.title = "Invalid config parameter"
                /\ (h.req.query = <<>> /\ schema # None) =>
                      /\ h.statuses = <<422>>
                      /\ Get(h.body).configSchema = e.configSchema
                      /\ Get(h.body).errors =
                            << [param |-> "a", pointer |-> "/a", reason |-> "Required"] >>
                /\ (h.req.query = << Entry(<<"a", "b">>, QStr("abc")) >> /\ schema # None) =>
                      /\ h.statuses = <<422>>
                      /\ Get(h.body) = e

\* a request refused with 422 while another POST request is connected: the
\* one server and the one transport are the other request's
C31_Witness ==
    /\ Len(handlers) = 2
    /\ FailedValidation(1)
    /\ handlers[1].statuses = <<422>>
    /\ handlers[1].closed
    /\ handlers[2].pc = "handling"
    /\ Len(servers) = 1
    /\ Len(transports) = 1

\* handler i has a server, and that server has been closed
HasServer(i) == i <= Len(handlers) /\ handlers[i].server # None
ServerClosed(i) == HasServer(i) /\ servers[Get(handlers[i].server)].closed

\* C32: every server created for a POST request is eventually closed, on
\* every path after its creation, also when the transport's constructor,
\* the connection or the handling of the request throws.
C32_ServerEventuallyClosed ==
    \A i \in 1..MaxRequests : [](HasServer(i) => <>ServerClosed(i))

\* C33: whatever throws in the POST handler is caught there, and the catch
\* block answers 500 with the JSON-RPC error -32603 if and only if no headers
\* had been sent when it was entered; the 500 is written by the catch block
\* only, and no request ever has its status written twice.
C33_ThrowIsAnswered500Once ==
    \A i \in 1..Len(handlers) :
        LET h == handlers[i]
        IN  /\ Len(h.statuses) <= 1
            /\ h.thrown =>
                  /\ h.caught # None
                  /\ h.pc = "done"
                  /\ ~Get(h.caught).headersSent =>
                        /\ h.statuses = <<500>>
                        /\ Get(h.body) = jsonRpcError(-32603, "Internal server error")
                  /\ Get(h.caught).headersSent =>
                        /\ h.statuses = <<200>>
                        /\ Get(h.body) = handled
            /\ h.statuses = <<500>> => (h.thrown /\ ~Get(h.caught).headersSent)
            /\ h.caught # None => h.thrown

\* handleRequest threw after the headers of one request had gone out and
\* before any of the other's
C33_Witness ==
    /\ Len(handlers) = 2
    /\ handlers[1].thrown
    /\ handlers[1].server # None
    /\ servers[Get(handlers[1].server)].transport # None
    /\ Get(handlers[1].caught).headersSent
    /\ handlers[1].statuses = <<200>>
    /\ handlers[2].thrown
    /\ handlers[2].server # None
    /\ servers[Get(handlers[2].server)].transport # None
    /\ ~Get(handlers[2].caught).headersSent
    /\ handlers[2].statuses = <<500>>

\* the handlers of GET and DELETE requests that have run
Refused == {i \in 1..Len(handlers) :
              handlers[i].method \in {"GET", "DELETE"} /\ handlers[i].pc # "arrived"}

\* C34: a GET or DELETE request is answered 405 with the JSON-RPC error
\* -32000, once, whatever its query and whatever the other requests are doing;
\* it has no server and no transport, and the servers and transports that
\* exist all belong to POST requests.
C34_GetAndDeleteAre405 ==
    /\ \A i \in Refused :
          /\ handlers[i].pc = "done"
          /\ handlers[i].statuses = <<405>>
          /\ Get(handlers[i].body) =
                jsonRpcError(-32000, "Method not allowed in stateless mode")
          /\ handlers[i].server = None
          /\ handlers[i].transport = None
          /\ ~handlers[i].thrown
    /\ \A i \in 1..Len(handlers) :
          handlers[i].method \in {"GET", "DELETE"} =>
              (handlers[i].server = None /\ handlers[i].transport = None)
    /\ Len(servers) = Cardinality({i \in WithServer : handlers[i].method = "POST"})
    /\ Len(transports) = Cardinality({i \in WithTransport : handlers[i].method = "POST"})

\* a GET with an undecodable config parameter was refused while a POST
\* request is being handled on the only server
C34_Witness ==
    /\ Len(handlers) = 2
    /\ handlers[1].method = "GET"
    /\ handlers[1].req.query = UndecodableQuery
    /\ handlers[1].statuses = <<405>>
    /\ handlers[2].method = "POST"
    /\ handlers[2].pc = "handling"
    /\ Len(servers) = 1

---------------------------------------------------------------------------
\* Claims about what a call leaves alone.

\* the request of the k-th call of the chain: the caller's request with only
\* page changed
KthRequest(k) ==
    IF k = 1 THEN request
    ELSE [request EXCEPT !.page = Some(PageOf(request) + k - 1)]

\* every request made for the chain is the caller's request with only page
\* changed, and every call of the chain ran under the caller's options
SameRequestAndOptions ==
    /\ \A k \in 1..Len(yielded) :
          yielded[k].call.request # None =>
              Get(yielded[k].call.request) = KthRequest(k)
    /\ callReq # None => Get(callReq) = KthRequest(Len(yielded) + 1)
    /\ context # None =>
          /\ context = Some(contextOf(options, client))
          /\ timeoutMs = Some(timeoutOf(options, client))

\* the outcome of the second call follows from its own request and options,
\* the client's configuration and its own transport outcomes
SecondCallOnItsOwn ==
    LET c == Get(concurrent)
    IN  /\ c.context # None => c.context = Some(contextOf(c.options, client))
        /\ (c.page # None /\ c.last # NoOutcome) =>
               c.page = Some(finish(c.request, c.last))
        /\ (c.page # None /\ Get(c.page).call.request # None) =>
               Get(Get(c.page).call.request) = c.request

\* the variables that belong to the first call
firstCall == <<pc, callReq, attempts, last, yielded, issued, nextCalls, lastNext,
               context, timeoutMs, security, aborted, elapsed, wait>>

\* no step writes the caller's request, the options or the client, and a step
\* of one call leaves the other call as it is
InputsAndClientKept ==
    /\ request' = request
    /\ options' = options
    /\ client' = client
    /\ Get(concurrent').request = Get(concurrent).request
    /\ Get(concurrent').options = Get(concurrent).options
    /\ (concurrent' # concurrent => firstCall' = firstCall)
    /\ (firstCall' # firstCall => concurrent' = concurrent)

\* C35: the list operation and its continuations never write their inputs or
\* the client: the caller's request keeps its page whatever the number of
\* next() calls, each following page is requested with the same q, pageSize
\* and options and only page changed, and of two calls running on one client
\* neither writes what the other reads.
C35_InputsAndClientNeverMutated ==
    /\ [](SameRequestAndOptions /\ SecondCallOnItsOwn)
    /\ [][InputsAndClientKept]_vars

\* the third page of a chain that started at page 3 with a search term was
\* requested while the second call, retried once, had ended
C35_Witness ==
    /\ request = [q |-> Some("search term"), page |-> Some(3), pageSize |-> Some(20)]
    /\ Len(yielded) = 3
    /\ yielded[3].call.status = "complete"
    /\ Get(yielded[3].call.request) =
          [q |-> Some("search term"), page |-> Some(5), pageSize |-> Some(20)]
    /\ nextCalls = 2
    /\ Get(concurrent).pc = "idle"
    /\ Get(concurrent).attempts = 2
    /\ context # None
    /\ Get(Get(concurrent).context).retryConfig = callerBackoff
    /\ Get(context).retryConfig = defaultRetryConfig
    /\ Get(context).retryCodes = {"401"}

---------------------------------------------------------------------------
\* Claims about the call record.

\* C36: the call record of a page tells how far its call got: "invalid" exactly
\* when validation or request creation failed and no transport attempt was
\* made (no request, no response), "request-error" exactly when the transport
\* call ended in a failure (request, no response), "complete" exactly when it
\* ended in a response (request and response), success or error.
C36_CallRecordTellsHowFar ==
    /\ \A k \in 1..Len(yielded) :
          LET call == yielded[k].call
          IN  /\ call.status \in {"invalid", "request-error", "complete"}
              /\ call.status = "invalid" <=>
                    (call.request = None /\ call.response = None)
              /\ call.status = "request-error" <=>
                    (call.request # None /\ call.response = None)
              /\ call.status = "complete" <=>
                    (call.request # None /\ call.response # None)
              /\ k < Len(yielded) => (call.status = "complete" /\ yielded[k].ok)
    /\ pc = "idle" =>
          /\ cur.call.status = "invalid" <=> (attempts = 0 /\ last = NoOutcome)
          /\ cur.call.status = "request-error" <=> last.kind = "failure"
          /\ cur.call.status = "complete" <=> last.kind = "response"
          /\ cur.call.status = "complete" => cur.call.response = Some(last)
          /\ cur.call.status = "invalid" =>
                cur.error \in {"SDKValidationError", "InvalidRequestError"}
          /\ Len(issued) =
                Cardinality({k \in 1..Len(yielded) : yielded[k].call.status # "invalid"})

\* the second page ended in a response with status 500: complete, and an error
C36_Witness ==
    /\ pc = "idle"
    /\ Len(yielded) = 2
    /\ cur.call.status = "complete"
    /\ ~cur.ok
    /\ Get(cur.call.response).status = 500
    /\ cur.call.request # None

---------------------------------------------------------------------------
\* Claims about paths through values, and about values that are no strings.

\* the config as override i finds it
Before(i) == applyOverrides(Blob, SubSeq(Overrides, 1, i - 1))

\* the strict prefixes of a path
StrictPrefixes(path) == {SubSeq(path, 1, n) : n \in 1..(Len(path) - 1)}

\* the path of override i leads through a segment that holds a value which
\* is no container
ThroughValue(i) ==
    \E p \in StrictPrefixes(Overrides[i].key) :
        /\ received(Before(i), p) # Undefined
        /\ ~isObject(received(Before(i), p))

\* C37: an override whose path leads through a segment holding a value that
\* is no container replaces that value by a new container and is assigned:
\* the blob {a:1} with a.b=2 resolves to {a:{b:2}}.  The override is not
\* dropped and the call does not fail for it: without schema the result is
\* the merged object, with a schema it is what validating that object gives.
C37_PathThroughValueIsOverwritten ==
    /\ (resolved # None /\ schema = None
            /\ expressReq.query = << Entry(<<"config">>, QStr("eyJhIjoxfQ==")),
                                     Entry(<<"a", "b">>, QStr("2")) >>) =>
          Get(resolved) = ok(Object1("a", Object1("b", JNum(2))))
    /\ (resolved # None /\ Decoded /\ isObject(Blob)) =>
          \A i \in 1..Len(Overrides) :
              ThroughValue(i) =>
                  /\ Get(resolved).ok \/ Get(resolved).error.status = 422
                  /\ schema = None => Get(resolved).ok
                  /\ (Get(resolved).ok /\ Final(i)
                         /\ (schema = None \/ Overrides[i].key = <<"a", "b">>)) =>
                        /\ received(Get(resolved).value, Overrides[i].key)
                              = Assigned(Overrides[i])
                        /\ \A p \in StrictPrefixes(Overrides[i].key) :
                              isObject(received(Get(resolved).value, p))
                  /\ (~Get(resolved).ok /\ Final(i)) =>
                        /\ received(Merged, Overrides[i].key) = Assigned(Overrides[i])
                        /\ ~zodSafeParse(Get(schema), Merged).success

\* the blob {a:1} came with a.b=2 and no schema: a holds a new object
C37_Witness ==
    /\ resolved # None
    /\ schema = None
    /\ expressReq.query = << Entry(<<"config">>, QStr("eyJhIjoxfQ==")),
                             Entry(<<"a", "b">>, QStr("2")) >>
    /\ ThroughValue(1)
    /\ received(Blob, <<"a">>) = JNum(1)
    /\ received(Get(resolved).value, <<"a", "b">>) = JNum(2)

\* the entry is one of config, api_key and profile
IsReservedEntry(e) == Len(e.key) = 1 /\ e.key[1] \in ReservedNames

\* the entry with its array cut down to the first element
FirstElementOnly(e) ==
    IF ~IsReservedEntry(e) /\ IsQArr(e.value) /\ Len(e.value.qarr) > 0
    THEN Entry(e.key, e.value.qarr[1])
    ELSE e

\* the entry is reserved or brings a string
ReservedOrText(e) == IsReservedEntry(e) \/ HasText(e)

\* the query without the other parameters whose value, or first element, is no
\* string, and with every array of the rest cut down to its first element
StringsOnly(query) ==
    LET kept == SelectSeq(query, ReservedOrText)
    IN  [i \in 1..Len(kept) |-> FirstElementOnly(kept[i])]

\* the request has an entry that is not reserved and is an array, or no string
HasArrayOrNonString ==
    \E i \in 1..Len(expressReq.query) :
        /\ ~IsReservedEntry(expressReq.query[i])
        /\ ~IsQStr(expressReq.query[i].value)

====
